---------------------------- MODULE Spec2Model ----------------------------
(***************************************************************************)
(* Structura: the two-phase trace compiler and replayer.                   *)
(*                                                                         *)
(*   - the static unroller (InterpreterService.generateSteps and the       *)
(*     analyze* methods) turns a syntax tree into a flat, branch-tagged    *)
(*     list of execution steps;                                            *)
(*   - the runtime executor (InterpreterService.executeSteps/executeStep)  *)
(*     replays the list against runtimeVariables / callStack and forwards  *)
(*     every effect to the visualization store (VisualizationContext);     *)
(*   - the Editor page drives the executor: autoplay loop with pause and   *)
(*     stop flags, single step forward, step back by replay from step 0.   *)
(*                                                                         *)
(* JavaScript values are dynamically typed; here every value is a record   *)
(* of one shape, tagged by t.  The executor keeps pointers as formatted    *)
(* strings ("arr[2]", "&y", "0x5F12AB", "__PTR_ARITH__p__+__2") and takes  *)
(* them apart again with regular expressions; the tags below stand for the *)
(* string forms and the Match* operators for the regular expressions, so   *)
(* that a string the expression does not accept (a negative index, say)    *)
(* is not accepted here either.                                            *)
(***************************************************************************)
EXTENDS Integers, Sequences, FiniteSets, TLC

VARIABLES
    prog,       \* the source text in the editor (its syntax tree)
    interp,     \* the InterpreterService instance (one per Editor mount)
    viz,        \* the visualization store: stack, heap, output, status
    un,         \* the unroller's position inside generateSteps
    ex,         \* InterpreterService.executeSteps: its loop position
    ed,         \* the Editor component: React state and refs
    loops,      \* the executeStepsWithVisualization invocations started so far
    hist        \* history of replays, kept for the properties only

vars == <<prog, interp, viz, un, ex, ed, loops, hist>>

-----------------------------------------------------------------------------
(* Values *)

Num(n)      == [t |-> "num",   n |-> n, s |-> "",  o |-> "", e |-> <<>>]
Str(s)      == [t |-> "str",   n |-> 0, s |-> s,   o |-> "", e |-> <<>>]
VarRef(x)   == [t |-> "ref",   n |-> 0, s |-> x,   o |-> "", e |-> <<>>]
ElemRef(a, i) == [t |-> "elem", n |-> i, s |-> a,  o |-> "", e |-> <<>>]
AddrV(a)    == [t |-> "addr",  n |-> a, s |-> "",  o |-> "", e |-> <<>>]
Arith(p, op, k) == [t |-> "arith", n |-> k, s |-> p, o |-> op, e |-> <<>>]
Arr(es)     == [t |-> "arr",   n |-> 0, s |-> "",  o |-> "", e |-> es]
Bool(b)     == [t |-> "bool",  n |-> IF b THEN 1 ELSE 0, s |-> "", o |-> "", e |-> <<>>]
Null        == [t |-> "null",  n |-> 0, s |-> "",  o |-> "", e |-> <<>>]
Undef       == [t |-> "undef", n |-> 0, s |-> "",  o |-> "", e |-> <<>>]

\* /^(.+)\[(\d+)\]$/ on String(value): "name[digits]"; \d+ takes no sign.
MatchArrayElem(v) == v.t = "elem" /\ v.n >= 0
\* String(value).startsWith('&')
MatchVarRef(v) == v.t = "ref"
\* String(value).startsWith('0x')
MatchHexAddr(v) == v.t = "addr"
\* typeof v === 'string' && v.startsWith('__PTR_ARITH__')
MatchPtrArith(v) == v.t = "arith"
\* typeof v === 'string'
IsString(v) == v.t \in {"str", "ref", "elem", "addr", "arith"}
\* JavaScript truthiness
Truthy(v) ==
    /\ v.t \notin {"null", "undef"}
    /\ ~(v.t \in {"num", "bool"} /\ v.n = 0)
    /\ ~(v.t = "str" /\ v.s = "")

EmptyMap == [x \in {} |-> Null]
Has(m, k) == k \in DOMAIN m
Put(m, k, v) == [x \in (DOMAIN m) \cup {k} |-> IF x = k THEN v ELSE m[x]]

\* a declared type: "int", "int*", "int**", "int[3]" as base, pointer
\* levels and array dimension (-1: not an array)
Ty(base, stars, dim) == [base |-> base, stars |-> stars, dim |-> dim]
NoTy == Ty("", 0, -1)
\* type.includes('*')
IsPtrType(ty) == ty.stars > 0

Binding(v, ty, a) == [value |-> v, type |-> ty, address |-> a]

\* the text of a LOG_OUTPUT step, as its pieces in order: literal text (no
\* braces in it), a placeholder {name}, {*name} or {**name}, and
\* String(value) where a placeholder has been replaced
Lit(s) == [k |-> "text", s |-> s, stars |-> 0, v |-> Null]
Placeholder(stars, name) ==
    [k |-> "placeholder", s |-> name, stars |-> stars, v |-> Null]
Shown(v) == [k |-> "value", s |-> "", stars |-> 0, v |-> v]

\* outputText.includes('{')
HasPlaceholder(text) == \E j \in 1..Len(text) : text[j].k = "placeholder"

\* const x = <expression>; ...x...x... : the expression is evaluated once
\* and the rest of the block reads the constant
With(x, Rest(_)) == Rest(x)

\* the mock stack address counter starts here (0x7FFE1A00)
StackBase == 2147359232
\* heap tokens are "0x5F" followed by four hex digits (0x5F0000 + r)
HeapBase == 6225920

-----------------------------------------------------------------------------
(* The visualization store (Effect Sink) *)

\* a provider that hands out an updateHeap action as well
VizActionNamesWithUpdateHeap ==
    {"reset", "pushFrame", "popFrame", "setVariable", "allocateHeap",
     "freeHeap", "logOutput", "setLine", "setStatus", "setError", "updateHeap"}

\* the action creators the provider hands out
VizActionNames ==
    {"reset", "pushFrame", "popFrame", "setVariable", "allocateHeap",
     "freeHeap", "logOutput", "setLine", "setStatus", "setError"}

\* log and rec are not part of the store: log is the sequence of calls the
\* store has received since the last reset, kept while rec is set
InitialViz ==
    [stack |-> <<>>, heap |-> EmptyMap, output |-> <<>>, status |-> "IDLE",
     log |-> <<>>, rec |-> TRUE]

Call(op, name, value, type, address) ==
    [op |-> op, name |-> name, value |-> value, type |-> type, address |-> address]

Logged(v, c) == IF v.rec THEN [v EXCEPT !.log = Append(@, c)] ELSE v

VizReset(v) == [InitialViz EXCEPT !.rec = v.rec]

VizSetStatus(v, st) == [v EXCEPT !.status = st]

VizPushFrame(v, name) ==
    [Logged(v, Call("pushFrame", name, Null, NoTy, 0)) EXCEPT
        !.stack = Append(@, [name |-> name, variables |-> EmptyMap])]

VizPopFrame(v) ==
    [Logged(v, Call("popFrame", "", Null, NoTy, 0)) EXCEPT
        !.stack = IF Len(@) = 0 THEN @ ELSE SubSeq(@, 1, Len(@) - 1)]

VizSetVariable(v, name, value, type, address) ==
    LET w == Logged(v, Call("setVariable", name, value, type, address))
        top == Len(v.stack)
    IN  IF top = 0 THEN w
        ELSE [w EXCEPT !.stack[top].variables =
                            Put(@, name, Binding(value, type, address))]

VizAllocateHeap(v, address, value, type) ==
    [Logged(v, Call("allocateHeap", "", value, type, address)) EXCEPT
        !.heap = Put(@, address, [value |-> value, type |-> type])]

VizLogOutput(v, text) ==
    [Logged(v, Call("logOutput", text, Null, NoTy, 0)) EXCEPT
        !.output = Append(@, text)]

\* vizActions.updateHeap(address, value): called only when the store has it
VizUpdateHeap(v, address, value) ==
    IF "updateHeap" \in VizActionNames
    THEN [Logged(v, Call("updateHeap", "", value, NoTy, address)) EXCEPT
            !.heap = IF Has(@, address)
                     THEN [@ EXCEPT ![address].value = value] ELSE @]
    ELSE v

-----------------------------------------------------------------------------
(* Execution steps *)

Tag(branch, parent) == [branch |-> branch, parent |-> parent]

Step(type, data) == [type |-> type, data |-> data, cb |-> <<>>]

\* steps[i].conditionalBranches.push({branch, parent}) for i in lo..hi-1
\* (indices here are 1-based: step index i of the code is position i+1)
\* a tagging loop that starts one step early
TagRangeFromMarker(steps, lo, hi, tag) ==
    [j \in 1..Len(steps) |->
        IF lo <= j /\ j <= hi
        THEN [steps[j] EXCEPT !.cb = Append(@, tag)]
        ELSE steps[j]]

TagRange(steps, lo, hi, tag) ==
    [j \in 1..Len(steps) |->
        IF lo < j /\ j <= hi
        THEN [steps[j] EXCEPT !.cb = Append(@, tag)]
        ELSE steps[j]]

-----------------------------------------------------------------------------
(* The runtime executor: executeStep *)

\* the part of the interpreter executeStep reads and writes, with the store
Machine(i, v) == [i |-> i, v |-> v]

\* newArray = [...old]; newArray[index] = value  (a store past the end grows
\* the array and leaves holes)
ArrayStore(es, index, value) ==
    LET n == IF index + 1 > Len(es) THEN index + 1 ELSE Len(es)
    IN  [j \in 1..n |->
            IF j = index + 1 THEN value
            ELSE IF j <= Len(es) THEN es[j] ELSE Undef]

\* runtimeVariables.set(name, {...old, value}); vizActions.setVariable(...)
\* a store that follows the target when the target is itself a pointer
SetValueFollowing(m, name, value) ==
    LET old == m.i.rt[name]
        to == IF old.value.t = "ref" /\ Has(m.i.rt, old.value.s)
              THEN old.value.s ELSE name
    IN  Machine([m.i EXCEPT !.rt = Put(@, to, [m.i.rt[to] EXCEPT !.value = value])],
                VizSetVariable(m.v, to, value, m.i.rt[to].type, m.i.rt[to].address))

SetValue(m, name, value) ==
    LET old == m.i.rt[name]
    IN  Machine([m.i EXCEPT !.rt = Put(@, name, [old EXCEPT !.value = value])],
                VizSetVariable(m.v, name, value, old.type, old.address))

\* CALL that saves the caller's scope and goes on in it
ExecCallShared(m, d) ==
    Machine([m.i EXCEPT !.cs = Append(@, m.i.rt)],
            VizPushFrame(m.v, d.name))

ExecCall(m, d) ==
    Machine([m.i EXCEPT !.cs = Append(@, m.i.rt), !.rt = EmptyMap],
            VizPushFrame(m.v, d.name))

\* generateAddress() is called twice: once for the runtime binding, once
\* for the store
ExecParamInit(m, d) ==
    Machine([m.i EXCEPT
                !.rt = Put(@, d.name, Binding(d.value, d.type, m.i.ctr)),
                !.ctr = @ + 2],
            VizSetVariable(m.v, d.name, d.value, d.type, m.i.ctr + 1))

ExecReturnFromCall(m, d) ==
    LET popped == VizPopFrame(m.v)
        rt1 == IF Len(m.i.cs) > 0 THEN m.i.cs[Len(m.i.cs)] ELSE m.i.rt
        cs1 == IF Len(m.i.cs) > 0 THEN SubSeq(m.i.cs, 1, Len(m.i.cs) - 1)
               ELSE m.i.cs
        m1 == Machine([m.i EXCEPT !.rt = rt1, !.cs = cs1], popped)
        m2 == IF d.targetVar # "" /\ m.i.lrv.t # "undef" /\ Has(rt1, d.targetVar)
              THEN SetValue(m1, d.targetVar, m.i.lrv)
              ELSE m1
    IN  Machine([m2.i EXCEPT !.lrv = Null, !.ret = FALSE], m2.v)

ExecSetVariable(m, d) ==
    Machine([m.i EXCEPT !.rt = Put(@, d.name, Binding(d.value, d.type, d.address))],
            VizSetVariable(m.v, d.name, d.value, d.type, d.address))

\* this.getState is the getState key of the context value; the provider
\* hands out none, so the template is forwarded as it stands
\* outputText.replace(/\{<stars>(\w+)\}/g, callback): the callback is given
\* the name and the placeholder itself, which it returns to leave it
ReplaceAll(text, stars, callback(_, _)) ==
    [j \in 1..Len(text) |->
        IF text[j].k = "placeholder" /\ text[j].stars = stars
        THEN callback(text[j].s, text[j])
        ELSE text[j]]

\* currentState.heap[value] is there
HeapHas(heap, v) == v.t = "addr" /\ Has(heap, v.n)

\* the element an "arr[i]" value names, when the frame has it
ElementOr(variables, ref, match) ==
    IF /\ Has(variables, ref.s)
       /\ variables[ref.s].value.t = "arr"
       /\ ref.n + 1 <= Len(variables[ref.s].value.e)
       /\ variables[ref.s].value.e[ref.n + 1].t # "undef"
    THEN Shown(variables[ref.s].value.e[ref.n + 1])
    ELSE match

\* 1. {**name}
ResolveDoubleDeref(state, variables, name, match) ==
    IF ~Has(variables, name) THEN match
    ELSE IF variables[name].type.stars < 2 THEN match
    ELSE IF ~MatchVarRef(variables[name].value) THEN match
    ELSE LET intermediateVarName == variables[name].value.s
         IN  IF ~Has(variables, intermediateVarName) THEN match
             ELSE IF ~IsPtrType(variables[intermediateVarName].type) THEN match
             ELSE LET iv == variables[intermediateVarName].value
                  IN  IF HeapHas(state.heap, iv) THEN Shown(state.heap[iv.n].value)
                      ELSE IF MatchArrayElem(iv) THEN ElementOr(variables, iv, match)
                      ELSE match

\* 2. {*name}
ResolveDeref(state, variables, name, match) ==
    IF ~(Has(variables, name) /\ IsPtrType(variables[name].type)) THEN match
    ELSE LET pv == variables[name].value
             byAddress == {x \in DOMAIN variables :
                              pv.t = "addr" /\ variables[x].address = pv.n}
         IN  IF MatchArrayElem(pv) THEN ElementOr(variables, pv, match)
             ELSE IF MatchVarRef(pv)
                  THEN IF Has(variables, pv.s) THEN Shown(variables[pv.s].value)
                       ELSE match
             ELSE IF byAddress # {}
                  THEN Shown(variables[CHOOSE x \in byAddress : TRUE].value)
             ELSE IF HeapHas(state.heap, pv) THEN Shown(state.heap[pv.n].value)
             ELSE match

\* 3. {name}
ResolvePlain(variables, name, match) ==
    IF Has(variables, name) THEN Shown(variables[name].value) ELSE match

\* the three replace passes over the top frame of getState()
ResolveOutput(state, text) ==
    LET variables == state.stack[Len(state.stack)].variables
        one == ReplaceAll(text, 2,
                   LAMBDA n, match : ResolveDoubleDeref(state, variables, n, match))
        two == ReplaceAll(one, 1,
                   LAMBDA n, match : ResolveDeref(state, variables, n, match))
    IN  ReplaceAll(two, 0, LAMBDA n, match : ResolvePlain(variables, n, match))

ExecLogOutput(m, d) ==
    IF m.i.getState /\ HasPlaceholder(d.text) /\ Len(m.v.stack) > 0
    THEN Machine(m.i, VizLogOutput(m.v, ResolveOutput(m.v, d.text)))
    ELSE Machine(m.i, VizLogOutput(m.v, d.text))

\* "__PTR_ARITH__p__+__2" resolved against p's runtime value
ResolveArith(rt, v) ==
    IF MatchPtrArith(v) /\ Has(rt, v.s) /\ MatchArrayElem(rt[v.s].value)
    THEN ElemRef(rt[v.s].value.s,
                 IF v.o = "+" THEN rt[v.s].value.n + v.n
                 ELSE rt[v.s].value.n - v.n)
    ELSE v

\* UPDATE_VARIABLE that keeps the old value of the variable
ExecUpdateVariableKept(m, d) ==
    IF Has(m.i.rt, d.name)
    THEN SetValue(m, d.name, m.i.rt[d.name].value)
    ELSE m

ExecUpdateVariable(m, d) ==
    IF Has(m.i.rt, d.name)
    THEN SetValue(m, d.name, ResolveArith(m.i.rt, d.value))
    ELSE m

ExecAllocateHeap(m, d) ==
    Machine(m.i, VizAllocateHeap(m.v, d.address, d.value, d.type))

\* POINTER_INCREMENT that leaves an array element pointer where it is
ExecPointerIncrementStay(m, d) ==
    IF ~Has(m.i.rt, d.name) THEN m
    ELSE LET cur == m.i.rt[d.name].value
         IN  IF MatchArrayElem(cur)
             THEN SetValue(m, d.name, ElemRef(cur.s, cur.n))
             ELSE IF cur.t = "num"
             THEN SetValue(m, d.name, Num(cur.n + d.delta))
             ELSE m

ExecPointerIncrement(m, d) ==
    IF ~Has(m.i.rt, d.name) THEN m
    ELSE LET cur == m.i.rt[d.name].value
         IN  IF MatchArrayElem(cur)
             THEN SetValue(m, d.name, ElemRef(cur.s, cur.n + d.delta))
             ELSE IF cur.t = "num"
             THEN SetValue(m, d.name, Num(cur.n + d.delta))
             ELSE m

\* an element store that writes into the array object itself, which is the
\* one the declaring step carries
StoreElementInPlace(m, name, index, value) ==
    LET stored == Arr(ArrayStore(m.i.rt[name].value.e, index, value))
        shared == [j \in 1..Len(m.i.steps) |->
                      IF /\ m.i.steps[j].type = "SET_VARIABLE"
                         /\ m.i.steps[j].data.name = name
                         /\ m.i.steps[j].data.value = m.i.rt[name].value
                      THEN [m.i.steps[j] EXCEPT !.data.value = stored]
                      ELSE m.i.steps[j]]
    IN  SetValue(Machine([m.i EXCEPT !.steps = shared], m.v), name, stored)

\* DEREF_ASSIGN, array branch: the array is cloned, the clone is modified
\* and becomes the binding's value
StoreElement(m, name, index, value) ==
    SetValue(m, name, Arr(ArrayStore(m.i.rt[name].value.e, index, value)))

\* DEREF_ASSIGN that binds the pointer's name to the value
ExecDerefAssignDeclares(m, d) ==
    Machine([m.i EXCEPT !.rt = Put(@, d.pointerName, Binding(d.value, NoTy, 0))],
            VizSetVariable(m.v, d.pointerName, d.value, NoTy, 0))

ExecDerefAssign(m, d) ==
    IF ~Has(m.i.rt, d.pointerName) THEN m
    ELSE LET p == m.i.rt[d.pointerName].value
         IN  IF MatchArrayElem(p)
             THEN IF Has(m.i.rt, p.s) /\ m.i.rt[p.s].value.t = "arr"
                  THEN StoreElement(m, p.s, p.n, d.value)
                  ELSE m
             ELSE IF MatchVarRef(p)
             THEN IF Has(m.i.rt, p.s) THEN SetValue(m, p.s, d.value) ELSE m
             ELSE IF MatchHexAddr(p)
             THEN Machine(m.i, VizUpdateHeap(m.v, p.n, d.value))
             ELSE m

ExecSetHeapField(m, d) ==
    IF Has(m.i.rt, d.pointerName) /\ Truthy(m.i.rt[d.pointerName].value)
    THEN LET v == IF d.value.t = "str" /\ Has(m.i.rt, d.value.s)
                  THEN m.i.rt[d.value.s].value ELSE d.value
         IN  Machine(m.i, VizUpdateHeap(m.v, m.i.rt[d.pointerName].value.n, v))
    ELSE m

\* RETURN that captures nothing
ExecReturnDropped(m, d) ==
    Machine([m.i EXCEPT !.ret = TRUE], m.v)

ExecReturn(m, d) ==
    Machine([m.i EXCEPT !.lrv = IF d.value.t # "undef" THEN d.value ELSE @,
                        !.ret = TRUE],
            m.v)

ExecStep(m, step) ==
    CASE step.type = "PUSH_FRAME" -> Machine(m.i, VizPushFrame(m.v, step.data.name))
      [] step.type = "CALL" -> ExecCall(m, step.data)
      [] step.type = "PARAM_INIT" -> ExecParamInit(m, step.data)
      [] step.type = "RETURN_FROM_CALL" -> ExecReturnFromCall(m, step.data)
      [] step.type = "POP_FRAME" -> Machine(m.i, VizPopFrame(m.v))
      [] step.type = "SET_VARIABLE" -> ExecSetVariable(m, step.data)
      [] step.type = "LOG_OUTPUT" -> ExecLogOutput(m, step.data)
      [] step.type = "UPDATE_VARIABLE" -> ExecUpdateVariable(m, step.data)
      [] step.type = "ALLOCATE_HEAP" -> ExecAllocateHeap(m, step.data)
      [] step.type = "POINTER_INCREMENT" -> ExecPointerIncrement(m, step.data)
      [] step.type = "DEREF_ASSIGN" -> ExecDerefAssign(m, step.data)
      [] step.type = "SET_HEAP_FIELD" -> ExecSetHeapField(m, step.data)
      [] step.type = "RETURN" -> ExecReturn(m, step.data)
      \* IF_STATEMENT, SWITCH_STATEMENT, ENTER_CASE, EVALUATE_LOOP_CONDITION,
      \* ENTER_LOOP, EXIT_LOOP_ITERATION: markers; UPDATE_ARRAY_ELEMENT has
      \* no case in the switch
      [] OTHER -> m

-----------------------------------------------------------------------------
(* Syntax trees (the Node Inspection Interface of tree-sitter-cpp) *)

NoNode == [k |-> "none"]
NumLit(n) == [k |-> "number_literal", n |-> n]
Ident(x) == [k |-> "identifier", s |-> x]
Binary(op, l, r) == [k |-> "binary_expression", op |-> op, l |-> l, r |-> r]
Not(e) == [k |-> "unary_expression", op |-> "!", arg |-> e]
AddressOf(e) == [k |-> "pointer_expression", op |-> "&", arg |-> e]
Deref(e) == [k |-> "pointer_expression", op |-> "*", arg |-> e]
Subscript(a, i) == [k |-> "subscript_expression", arg |-> a, idx |-> i]
NewExpr(ty, args) == [k |-> "new_expression", type |-> ty, args |-> args]
CallExpr(f, args) == [k |-> "call_expression", f |-> f, args |-> args]
InitList(es) == [k |-> "initializer_list", es |-> es]
Assign(l, r) == [k |-> "assignment_expression", l |-> l, r |-> r]
Update(x, op) == [k |-> "update_expression", arg |-> x, op |-> op]
Field(obj, name) == [k |-> "field_expression", arg |-> obj, field |-> name]
StrLit(s) == [k |-> "string_literal", s |-> s]
Endl == Ident("endl")
\* cout << operand << operand ...
Cout(operands) == [k |-> "cout", operands |-> operands]

\* an init_declarator: dk is the declarator's node type, stars its pointer
\* levels, size the array size
InitDecl(dk, stars, name, size, value) ==
    [dk |-> dk, stars |-> stars, name |-> name, size |-> size, value |-> value]
Scalar(name, value) == InitDecl("identifier", 0, name, 0, value)
Pointer(name, value) == InitDecl("pointer_declarator", 1, name, 0, value)
Pointer2(name, value) == InitDecl("pointer_declarator", 2, name, 0, value)
Array(name, size, value) == InitDecl("array_declarator", 0, name, size, value)

Decl(ty, ds) == [k |-> "declaration", type |-> ty, ds |-> ds]
ExprStmt(e) == [k |-> "expression_statement", e |-> e]
If(c, th, el) == [k |-> "if_statement", c |-> c, th |-> th, el |-> el]
Case(v, body) == [value |-> v, body |-> body]
Switch(x, cases, hasDefault, def) ==
    [k |-> "switch_statement", x |-> x, cases |-> cases,
     hasDefault |-> hasDefault, def |-> def]
While(c, body) == [k |-> "while_statement", c |-> c, body |-> body]
For(init, c, upd, body) ==
    [k |-> "for_statement", init |-> init, c |-> c, upd |-> upd, body |-> body]
Return(e) == [k |-> "return_statement", e |-> e]
Break == [k |-> "break_statement"]
Compound(ss) == [k |-> "compound_statement", ss |-> ss]

Param(ty, name) == [type |-> ty, name |-> name]
Function(name, params, body) == [name |-> name, params |-> params, body |-> body]

\* populateFunctionMap: the last definition of a name wins
FunctionIndex(p, name) ==
    LET is == {i \in 1..Len(p) : p[i].name = name}
    IN  IF is = {} THEN 0 ELSE CHOOSE i \in is : \A j \in is : j <= i

-----------------------------------------------------------------------------
(* The static unroller: expression evaluation *)

\* the text of an expression that did not evaluate to a number
Text == Str("<text>")

\* identifiers in lexicographic order, for the string comparisons of
\* JavaScript's < and > on two unresolved names
Lexicon == <<"a", "arr", "b", "f", "g", "i", "k", "n", "p", "ptr", "q", "r",
             "s", "x", "y", "z">>
LexPos(x) == IF \E i \in 1..Len(Lexicon) : Lexicon[i] = x
             THEN CHOOSE i \in 1..Len(Lexicon) : Lexicon[i] = x ELSE 0

\* Math.floor(l / r) for r # 0; \div already rounds towards minus infinity
FloorDiv(l, r) == l \div r

\* JavaScript's %: the sign of the dividend
Abs(n) == IF n < 0 THEN -n ELSE n
JsRem(l, r) == IF l >= 0 THEN l % Abs(r) ELSE -((-l) % Abs(r))

Arithmetic(op, l, r) ==
    CASE op = "+" -> Num(l + r)
      [] op = "-" -> Num(l - r)
      [] op = "*" -> Num(l * r)
      [] op = "/" /\ r # 0 -> Num(FloorDiv(l, r))
      [] op = "%" /\ r # 0 -> Num(JsRem(l, r))
      [] op = "==" -> Num(IF l = r THEN 1 ELSE 0)
      [] op = "!=" -> Num(IF l # r THEN 1 ELSE 0)
      [] op = "<" -> Num(IF l < r THEN 1 ELSE 0)
      [] op = ">" -> Num(IF l > r THEN 1 ELSE 0)
      [] op = "<=" -> Num(IF l <= r THEN 1 ELSE 0)
      [] op = ">=" -> Num(IF l >= r THEN 1 ELSE 0)
      [] OTHER -> Text

Res(v, ctr) == [v |-> v, ctr |-> ctr]

RECURSIVE evaluateExpression(_, _, _)
evaluateExpression(node, av, ctr) ==
    CASE node.k = "none" -> Res(Str("undefined"), ctr)
      [] node.k = "number_literal" -> Res(Num(node.n), ctr)
      [] node.k = "pointer_expression" ->
            IF node.arg.k = "identifier"
            THEN Res(AddrV(ctr), ctr + 1)       \* generateAddress()
            ELSE Res(AddrV(0), ctr)             \* '0x0'
      [] node.k = "binary_expression" ->
            With(evaluateExpression(node.l, av, ctr), LAMBDA l :
            With(evaluateExpression(node.r, av, l.ctr), LAMBDA r :
                IF l.v.t = "num" /\ r.v.t = "num"
                THEN Res(Arithmetic(node.op, l.v.n, r.v.n), r.ctr)
                ELSE Res(Text, r.ctr)))
      [] node.k = "subscript_expression" ->
            With(evaluateExpression(node.arg, av, ctr), LAMBDA a :
            With(evaluateExpression(node.idx, av, a.ctr), LAMBDA i :
                IF a.v.t = "arr" /\ i.v.t = "num"
                THEN Res(IF 0 <= i.v.n /\ i.v.n < Len(a.v.e)
                         THEN a.v.e[i.v.n + 1] ELSE Undef, i.ctr)
                ELSE Res(Num(0), i.ctr)))
      [] node.k = "identifier" ->
            Res(IF Has(av, node.s) THEN av[node.s] ELSE Str(node.s), ctr)
      [] OTHER -> Res(Text, ctr)

\* Number(v) is not NaN
Numeric(v) == v.t \in {"num", "bool"}

\* JavaScript's relational operators on values that are not both numbers:
\* two strings compare as text, anything else involves NaN and is false
Relational(op, l, r) ==
    IF Numeric(l) /\ Numeric(r)
    THEN CASE op = ">" -> l.n > r.n
           [] op = "<" -> l.n < r.n
           [] op = ">=" -> l.n >= r.n
           [] op = "<=" -> l.n <= r.n
    ELSE IF l.t = "str" /\ r.t = "str"
    THEN CASE op = ">" -> LexPos(l.s) > LexPos(r.s)
           [] op = "<" -> LexPos(l.s) < LexPos(r.s)
           [] op = ">=" -> LexPos(l.s) >= LexPos(r.s)
           [] op = "<=" -> LexPos(l.s) <= LexPos(r.s)
    ELSE FALSE

ConditionOps == {">", "<", "==", "!=", ">=", "<=", "&&", "||"}

RECURSIVE evaluateCondition(_, _, _)
evaluateCondition(c, av, ctr) ==
    CASE c.k = "none" -> Res(Bool(FALSE), ctr)
      [] c.k = "binary_expression" ->
            IF c.op \notin ConditionOps THEN Res(Bool(FALSE), ctr)
            ELSE With(evaluateExpression(c.l, av, ctr), LAMBDA l :
                 With(evaluateExpression(c.r, av, l.ctr), LAMBDA r :
                     CASE c.op \in {">", "<", ">=", "<="} ->
                            Res(Bool(Relational(c.op, l.v, r.v)), r.ctr)
                       [] c.op = "==" -> Res(Bool(l.v = r.v), r.ctr)
                       [] c.op = "!=" -> Res(Bool(l.v # r.v), r.ctr)
                       [] c.op = "&&" -> Res(IF Truthy(l.v) THEN r.v ELSE l.v, r.ctr)
                       [] c.op = "||" -> Res(IF Truthy(l.v) THEN l.v ELSE r.v, r.ctr)))
      [] c.k = "unary_expression" ->
            With(evaluateCondition(c.arg, av, ctr), LAMBDA inner :
                Res(Bool(~Truthy(inner.v)), inner.ctr))
      [] c.k = "identifier" ->
            Res(Bool(Truthy(evaluateExpression(c, av, ctr).v)), ctr)
      [] c.k = "number_literal" -> Res(Bool(c.n # 0), ctr)
      [] OTHER -> Res(Bool(FALSE), ctr)

-----------------------------------------------------------------------------
(* The static unroller: statements *)

\* the recursion ceiling of analyzeFunctionCall
MaxCallDepth == 20
\* MAX_ITERATIONS of analyzeWhileStatement and analyzeForStatement
MaxIterations == 10

IfTrue == <<"if-true">>
IfFalse == <<"if-false">>
CaseLabel(v) == <<"case", v>>       \* `case-${value}`, 'case-default'

\* The unroller is recursive over the tree; u.k is the stack of what is
\* left to do when the statement under analysis returns.
Emit(u, step) == [u EXCEPT !.steps = Append(@, step)]
PushK(u, frame) == [u EXCEPT !.k = Append(@, frame)]
PopK(u) == [u EXCEPT !.k = SubSeq(@, 1, Len(@) - 1)]
TopK(u) == u.k[Len(u.k)]
SetTopK(u, frame) == [u EXCEPT !.k[Len(u.k)] = frame]

BlockK(ss, i) == [f |-> "block", ss |-> ss, i |-> i]
DeclK(ty, ds, i) == [f |-> "decl", ty |-> ty, ds |-> ds, i |-> i]
ThenK(ix, start, cr, pre, el) ==
    [f |-> "then", ix |-> ix, start |-> start, cr |-> cr, pre |-> pre, el |-> el]
ElseK(ix, start, cr, post) ==
    [f |-> "else", ix |-> ix, start |-> start, cr |-> cr, post |-> post]
CaseK(ix, st, ci, start) ==
    [f |-> "case", ix |-> ix, st |-> st, ci |-> ci, start |-> start]
WhileK(st, it) == [f |-> "while", st |-> st, it |-> it]
WhileEndK(st, it) == [f |-> "whileEnd", st |-> st, it |-> it]
ForK(st, it) == [f |-> "for", st |-> st, it |-> it]
ForEndK(st, it) == [f |-> "forEnd", st |-> st, it |-> it]
CallRetK(name, target) == [f |-> "callRet", name |-> name, target |-> target]
FuncEndK(name) == [f |-> "funcEnd", name |-> name]
UnitK(i) == [f |-> "unit", i |-> i]

\* analyzeCompoundOrStatement
BodyOf(node) == IF node.k = "compound_statement" THEN node.ss ELSE <<node>>

\* Math.random(): the next of the draws fixed for this generateSteps call
NextRandom(u) == IF Len(u.rnd) > 0 THEN Head(u.rnd) ELSE 0
DropRandom(u) == [u EXCEPT !.rnd = IF Len(@) > 0 THEN Tail(@) ELSE @]

\* evaluate a list of expressions left to right, threading the counter
RECURSIVE EvalAll(_, _, _)
EvalAll(es, av, ctr) ==
    IF Len(es) = 0 THEN [vs |-> <<>>, ctr |-> ctr]
    ELSE With(evaluateExpression(Head(es), av, ctr), LAMBDA h :
         With(EvalAll(Tail(es), av, h.ctr), LAMBDA t :
             [vs |-> <<h.v>> \o t.vs, ctr |-> t.ctr]))

SetVariableStep(name, value, type, address) ==
    Step("SET_VARIABLE",
         [name |-> name, value |-> value, type |-> type, address |-> address])

\* evaluatePointerArithmetic: Null stands for the null it returns
evaluatePointerArithmetic(expr) ==
    IF expr.l.k = "identifier" /\ expr.r.k = "number_literal"
    THEN Arith(expr.l.s, IF expr.op \in {"+", "-"} THEN expr.op ELSE "+", expr.r.n)
    ELSE Null

\* a parameter loop that breaks one actual early
BoundParametersButLast(fn, args) ==
    IF Len(fn.params) < Len(args) THEN Len(fn.params) - 1
    ELSE IF Len(args) > 0 THEN Len(args) - 1 ELSE 0

\* the parameter loop runs over the formals and breaks at the end of the
\* actuals: the number of parameters it initialises
BoundParameters(fn, args) ==
    IF Len(fn.params) < Len(args) THEN Len(fn.params) ELSE Len(args)

\* analyzeFunctionCall without the recursion ceiling
analyzeFunctionCallNoCeiling(u, p, call, target) ==
    LET fi == FunctionIndex(p, call.f) IN
    IF fi = 0 THEN u
    ELSE
    With(EvalAll(call.args, u.av, u.ctr), LAMBDA args :
    LET fn == p[fi]
        n == BoundParameters(fn, args.vs)
        callStep == Step("CALL", [name |-> call.f, args |-> args.vs, targetVar |-> target])
        paramSteps == [i \in 1..n |->
                         Step("PARAM_INIT", [name |-> fn.params[i].name,
                                             value |-> args.vs[i],
                                             type |-> Ty(fn.params[i].type, 0, -1)])]
        tracked == {i \in 1..n : args.vs[i].t \in {"num", "arr"}}
        \* a later parameter of the same name overwrites an earlier one
        av1 == [x \in DOMAIN u.av \cup {fn.params[i].name : i \in tracked} |->
                  IF \E i \in tracked : fn.params[i].name = x
                  THEN args.vs[CHOOSE i \in tracked :
                                  /\ fn.params[i].name = x
                                  /\ \A j \in tracked : fn.params[j].name = x => j <= i]
                  ELSE u.av[x]]
        u1 == [u EXCEPT !.steps = (@ \o <<callStep>>) \o paramSteps,
                        !.ctr = args.ctr,
                        !.depth = @ + 1,
                        !.av = av1]
    IN  PushK(PushK(u1, CallRetK(call.f, target)), BlockK(fn.body, 1)))

\* analyzeFunctionCall up to the callee's body; the rest is CallRetK
analyzeFunctionCall(u, p, call, target) ==
    LET fi == FunctionIndex(p, call.f) IN
    IF u.depth > MaxCallDepth \/ fi = 0 THEN u
    ELSE
    With(EvalAll(call.args, u.av, u.ctr), LAMBDA args :
    LET fn == p[fi]
        n == BoundParameters(fn, args.vs)
        callStep == Step("CALL", [name |-> call.f, args |-> args.vs, targetVar |-> target])
        paramSteps == [i \in 1..n |->
                         Step("PARAM_INIT", [name |-> fn.params[i].name,
                                             value |-> args.vs[i],
                                             type |-> Ty(fn.params[i].type, 0, -1)])]
        tracked == {i \in 1..n : args.vs[i].t \in {"num", "arr"}}
        \* a later parameter of the same name overwrites an earlier one
        av1 == [x \in DOMAIN u.av \cup {fn.params[i].name : i \in tracked} |->
                  IF \E i \in tracked : fn.params[i].name = x
                  THEN args.vs[CHOOSE i \in tracked :
                                  /\ fn.params[i].name = x
                                  /\ \A j \in tracked : fn.params[j].name = x => j <= i]
                  ELSE u.av[x]]
        u1 == [u EXCEPT !.steps = (@ \o <<callStep>>) \o paramSteps,
                        !.ctr = args.ctr,
                        !.depth = @ + 1,
                        !.av = av1]
    IN  PushK(PushK(u1, CallRetK(call.f, target)), BlockK(fn.body, 1)))

\* a generateAddress that does not advance the counter
NextAddressSame(ctr) == ctr

\* generateAddress: the counter after the address is taken from it
NextAddress(ctr) == ctr + 1

\* one init_declarator of analyzeDeclaration
analyzeDeclarator(u, p, ty, d) ==
    IF d.value.k = "none" THEN u        \* not an init_declarator: skipped
    ELSE
    With(evaluateExpression(d.value, u.av, u.ctr), LAMBDA first :
    LET address == first.ctr
        ctr1 == NextAddress(first.ctr)
        varType == Ty(ty, d.stars, -1)
    IN
    IF d.dk = "array_declarator" THEN
        With(IF d.value.k = "initializer_list"
             THEN EvalAll(d.value.es, u.av, ctr1)
             ELSE [vs |-> [j \in 1..d.size |-> Num(0)], ctr |-> ctr1],
             LAMBDA elems :
            [Emit(u, SetVariableStep(d.name, Arr(elems.vs),
                                     Ty(ty, 0, Len(elems.vs)), address))
                EXCEPT !.ctr = elems.ctr, !.av = Put(@, d.name, Arr(elems.vs))])
    ELSE IF IsPtrType(varType) THEN
        IF d.value.k = "new_expression" THEN
            With(IF Len(d.value.args) > 0
                 THEN evaluateExpression(d.value.args[1], u.av, ctr1)
                 ELSE Res(Num(0), ctr1),
                 LAMBDA arg :
            LET heapAddress == HeapBase + NextRandom(u)
                initialValue == IF arg.v = Str("undefined") \/ arg.v.t = "undef"
                                THEN Num(0) ELSE arg.v
                allocate == Step("ALLOCATE_HEAP", [address |-> heapAddress,
                                                   value |-> initialValue,
                                                   type |-> Ty(d.value.type, 0, -1)])
            IN  [Emit(Emit(DropRandom(u), allocate),
                      SetVariableStep(d.name, AddrV(heapAddress), varType, address))
                    EXCEPT !.ctr = arg.ctr])
        ELSE
            With(CASE d.value.k = "pointer_expression"
                         /\ d.value.arg.k = "subscript_expression" ->
                            IF d.value.arg.idx.k = "number_literal"
                            THEN Res(ElemRef(d.value.arg.arg.s, d.value.arg.idx.n), ctr1)
                            ELSE With(evaluateExpression(d.value.arg.idx, u.av, ctr1),
                                      LAMBDA i :
                                         Res(IF i.v.t = "num"
                                             THEN ElemRef(d.value.arg.arg.s, i.v.n)
                                             ELSE Text, i.ctr))
                    [] d.value.k = "pointer_expression"
                         /\ d.value.arg.k = "identifier" ->
                            Res(VarRef(d.value.arg.s), ctr1)
                    [] d.value.k = "identifier" -> Res(ElemRef(d.value.s, 0), ctr1)
                    [] OTHER -> Res(first.v, ctr1),
                 LAMBDA value :
                [Emit(u, SetVariableStep(d.name, value.v, varType, address))
                    EXCEPT !.ctr = value.ctr])
    ELSE IF d.value.k = "call_expression" THEN
        analyzeFunctionCall(
            [Emit(u, SetVariableStep(d.name, Str("?"), varType, address))
                EXCEPT !.ctr = ctr1],
            p, d.value, d.name)
    ELSE
        [Emit(u, SetVariableStep(d.name, first.v, varType, address))
            EXCEPT !.ctr = ctr1,
                   !.av = IF first.v.t = "num" THEN Put(@, d.name, first.v) ELSE @])

\* analyzeUpdateExpression
analyzeUpdateExpression(u, expr) ==
    IF expr.arg.k # "identifier" THEN u
    ELSE LET delta == IF expr.op = "++" THEN 1 ELSE -1
             name == expr.arg.s
         IN  [Emit(u, Step("POINTER_INCREMENT", [name |-> name, delta |-> delta]))
                EXCEPT !.av = IF Has(@, name) /\ @[name].t = "num"
                              THEN Put(@, name, Num(@[name].n + delta)) ELSE @]

UpdateVariableStep(name, value) ==
    Step("UPDATE_VARIABLE", [name |-> name, value |-> value])

\* analyzeAssignment
analyzeAssignment(u, expr) ==
    LET left == expr.l
        right == expr.r
    IN
    CASE left.k = "subscript_expression" ->
            With(evaluateExpression(left.idx, u.av, u.ctr), LAMBDA i :
            With(evaluateExpression(right, u.av, i.ctr), LAMBDA v :
                [Emit(u, Step("UPDATE_ARRAY_ELEMENT",
                              [arrayName |-> left.arg.s, index |-> i.v, value |-> v.v]))
                    EXCEPT !.ctr = v.ctr]))
      [] left.k = "pointer_expression" /\ left.op = "*" ->
            With(evaluateExpression(right, u.av, u.ctr), LAMBDA v :
                [Emit(u, Step("DEREF_ASSIGN",
                              [pointerName |-> left.arg.s, value |-> v.v]))
                    EXCEPT !.ctr = v.ctr])
      [] left.k = "field_expression" ->
            With(evaluateExpression(right, u.av, u.ctr), LAMBDA v :
                [Emit(u, Step("SET_HEAP_FIELD",
                              [pointerName |-> left.arg.s, field |-> left.field,
                               value |-> v.v]))
                    EXCEPT !.ctr = v.ctr])
      [] left.k = "identifier" ->
            LET name == left.s IN
            CASE right.k = "pointer_expression" /\ right.op = "&" ->
                    IF right.arg.k = "subscript_expression"
                    THEN IF right.arg.idx.k = "number_literal" /\ right.arg.idx.n >= 0
                         THEN Emit(u, UpdateVariableStep(name,
                                        ElemRef(right.arg.arg.s, right.arg.idx.n)))
                         ELSE u
                    ELSE IF right.arg.k = "identifier"
                    THEN Emit(u, UpdateVariableStep(name, VarRef(right.arg.s)))
                    ELSE u
              [] right.k = "number_literal" ->
                    [Emit(u, UpdateVariableStep(name, Num(right.n)))
                        EXCEPT !.av = IF Has(@, name) THEN Put(@, name, Num(right.n))
                                      ELSE @]
              [] right.k = "identifier" ->
                    Emit(u, UpdateVariableStep(name, ElemRef(right.s, 0)))
              [] right.k = "binary_expression" ->
                    IF Has(u.av, name)
                    THEN IF right.op \notin {"+", "-", "*", "/"} THEN u
                         ELSE With(evaluateExpression(right.l, u.av, u.ctr), LAMBDA l :
                              With(evaluateExpression(right.r, u.av, l.ctr), LAMBDA r :
                                  IF l.v.t = "num" /\ r.v.t = "num"
                                  THEN LET v == Arithmetic(right.op, l.v.n, r.v.n)
                                       IN  [Emit(u, UpdateVariableStep(name, v))
                                              EXCEPT !.ctr = r.ctr,
                                                     !.av = Put(@, name, v)]
                                  ELSE LET v == evaluatePointerArithmetic(right)
                                       IN  [(IF v.t = "null" THEN u
                                             ELSE Emit(u, UpdateVariableStep(name, v)))
                                              EXCEPT !.ctr = r.ctr]))
                    ELSE LET v == evaluatePointerArithmetic(right)
                         IN  IF v.t = "null" THEN u
                             ELSE Emit(u, UpdateVariableStep(name, v))
              [] OTHER -> u
      [] OTHER -> u

\* analyzeExpressionStatement
\* /^(\w+)/ on the text of an operand: the word it starts with, "" if none
RECURSIVE LeadingWord(_)
LeadingWord(e) ==
    CASE e.k = "identifier" -> e.s
      [] e.k = "number_literal" -> ToString(e.n)
      [] e.k = "call_expression" -> e.f
      [] e.k = "binary_expression" -> LeadingWord(e.l)
      [] e.k \in {"subscript_expression", "field_expression"} -> LeadingWord(e.arg)
      [] OTHER -> ""

\* what one operand of << adds to the output
CoutPiece(e) ==
    CASE e.k = "string_literal" -> IF e.s = "" THEN <<>> ELSE <<Lit(e.s)>>
      [] e.k = "pointer_expression" /\ e.op = "*" ->
            IF e.arg.k = "pointer_expression" /\ e.arg.op = "*"
            THEN IF LeadingWord(e.arg.arg) # ""
                 THEN <<Placeholder(2, LeadingWord(e.arg.arg))>> ELSE <<>>
            ELSE IF LeadingWord(e.arg) # ""
                 THEN <<Placeholder(1, LeadingWord(e.arg))>> ELSE <<>>
      [] e = Endl -> <<>>
      [] OTHER -> IF LeadingWord(e) # ""
                  THEN <<Placeholder(0, LeadingWord(e))>> ELSE <<>>

RECURSIVE CoutPieces(_)
CoutPieces(operands) ==
    IF operands = <<>> THEN <<>>
    ELSE CoutPiece(Head(operands)) \o CoutPieces(Tail(operands))

extractCoutOutput(e) ==
    IF CoutPieces(e.operands) = <<>> THEN <<Lit("Output")>>
    ELSE CoutPieces(e.operands)

analyzeExpressionStatement(u, e) ==
    CASE e.k = "cout" ->
            Emit(u, Step("LOG_OUTPUT", [text |-> extractCoutOutput(e)]))
      [] e.k = "assignment_expression" -> analyzeAssignment(u, e)
      [] e.k = "update_expression" -> analyzeUpdateExpression(u, e)
      [] OTHER -> u

\* analyzeReturnStatement
analyzeReturnStatement(u, st) ==
    IF st.e.k = "none" THEN Emit(u, Step("RETURN", [value |-> Null]))
    ELSE With(evaluateExpression(st.e, u.av, u.ctr), LAMBDA v :
             [Emit(u, Step("RETURN", [value |-> v.v])) EXCEPT !.ctr = v.ctr])

\* analyzeIfStatement up to the consequence; the rest is ThenK and ElseK
analyzeIfStatement(u, st) ==
    With(evaluateCondition(st.c, u.av, u.ctr), LAMBDA cr :
    LET ix == Len(u.steps)
        marker == Step("IF_STATEMENT", [condition |-> st.c,
                                        hasTrueBranch |-> st.th.k # "none",
                                        hasFalseBranch |-> st.el.k # "none"])
        u2 == PushK([Emit(u, marker) EXCEPT !.ctr = cr.ctr],
                    ThenK(ix, ix + 1, cr.v, u.av, st.el))
    IN  IF st.th.k # "none" THEN PushK(u2, BlockK(BodyOf(st.th), 1)) ELSE u2)

\* analyzeSwitchStatement up to the first case; the rest is CaseK
analyzeSwitchStatement(u, st) ==
    PushK(Emit(u, Step("SWITCH_STATEMENT", [variable |-> st.x])),
          CaseK(Len(u.steps), st, 0, Len(u.steps) + 1))

\* analyzeWhileStatement / analyzeForStatement: the loops are WhileK, ForK
analyzeWhileStatement(u, st) == PushK(u, WhileK(st, 0))

\* analyzeStatement
analyzeStatement(u, p, st) ==
    CASE st.k = "declaration" -> PushK(u, DeclK(st.type, st.ds, 1))
      [] st.k = "expression_statement" ->
            IF st.e.k = "call_expression" THEN analyzeFunctionCall(u, p, st.e, "")
            ELSE analyzeExpressionStatement(u, st.e)
      [] st.k = "if_statement" -> analyzeIfStatement(u, st)
      [] st.k = "switch_statement" -> analyzeSwitchStatement(u, st)
      [] st.k = "while_statement" -> analyzeWhileStatement(u, st)
      [] st.k = "for_statement" ->
            LET u1 == PushK(u, ForK(st, 0))
            IN  IF st.init.k = "none" THEN u1 ELSE PushK(u1, BlockK(<<st.init>>, 1))
      [] st.k = "return_statement" -> analyzeReturnStatement(u, st)
      [] st.k = "compound_statement" -> PushK(u, BlockK(st.ss, 1))
      [] OTHER -> u

\* the statements of a case body: the value literal and break are skipped
CaseBody(body) == SelectSeq(body, LAMBDA st : st.k # "break_statement")

\* a loop head that emits the condition check only for an iteration it
\* enters
LoopHeadQuietExit(u, top) ==
    IF top.it >= MaxIterations THEN PopK(u)
    ELSE With(IF top.f = "for" /\ top.st.c.k = "none"
              THEN Res(Bool(TRUE), u.ctr)
              ELSE evaluateCondition(top.st.c, u.av, u.ctr),
              LAMBDA cr :
         LET u1 == [Emit(u, Step("EVALUATE_LOOP_CONDITION",
                                 [condition |-> top.st.c, result |-> cr.v,
                                  iteration |-> top.it]))
                      EXCEPT !.ctr = cr.ctr]
             u3 == SetTopK(Emit(u1, Step("ENTER_LOOP", [iteration |-> top.it])),
                           IF top.f = "for" THEN ForEndK(top.st, top.it)
                           ELSE WhileEndK(top.st, top.it))
         IN  IF ~Truthy(cr.v) THEN PopK([u EXCEPT !.ctr = cr.ctr])
             ELSE IF top.st.body.k = "none" THEN u3
             ELSE PushK(u3, BlockK(BodyOf(top.st.body), 1)))

\* the head of an iteration of analyzeWhileStatement / analyzeForStatement:
\* the ceiling, the condition check, ENTER_LOOP and the body
LoopHead(u, top) ==
    IF top.it >= MaxIterations THEN PopK(u)
    ELSE With(IF top.f = "for" /\ top.st.c.k = "none"
              THEN Res(Bool(TRUE), u.ctr)
              ELSE evaluateCondition(top.st.c, u.av, u.ctr),
              LAMBDA cr :
         LET u1 == [Emit(u, Step("EVALUATE_LOOP_CONDITION",
                                 [condition |-> top.st.c, result |-> cr.v,
                                  iteration |-> top.it]))
                      EXCEPT !.ctr = cr.ctr]
             u3 == SetTopK(Emit(u1, Step("ENTER_LOOP", [iteration |-> top.it])),
                           IF top.f = "for" THEN ForEndK(top.st, top.it)
                           ELSE WhileEndK(top.st, top.it))
         IN  IF ~Truthy(cr.v) THEN PopK(u1)
             ELSE IF top.st.body.k = "none" THEN u3
             ELSE PushK(u3, BlockK(BodyOf(top.st.body), 1)))

\* One step of the unroller: the top of u.k says where analysis resumes.
UnrollStep(u, p) ==
    LET top == TopK(u) IN
    CASE top.f = "unit" ->                  \* analyzeNode(rootNode), no main
            IF top.i > Len(p) THEN PopK(u)
            ELSE PushK(PushK(Emit(SetTopK(u, UnitK(top.i + 1)),
                                  Step("PUSH_FRAME", [name |-> p[top.i].name])),
                             FuncEndK(p[top.i].name)),
                       BlockK(p[top.i].body, 1))
      [] top.f = "funcEnd" ->               \* analyzeFunctionDefinition, end
            Emit(PopK(u), Step("POP_FRAME", [name |-> top.name]))
      [] top.f = "block" ->                 \* analyzeFunctionBody's loop
            IF top.i > Len(top.ss) THEN PopK(u)
            ELSE analyzeStatement(SetTopK(u, BlockK(top.ss, top.i + 1)), p,
                                  top.ss[top.i])
      [] top.f = "decl" ->                  \* analyzeDeclaration's loop
            IF top.i > Len(top.ds) THEN PopK(u)
            ELSE analyzeDeclarator(SetTopK(u, DeclK(top.ty, top.ds, top.i + 1)), p,
                                   top.ty, top.ds[top.i])
      [] top.f = "callRet" ->               \* analyzeFunctionCall, after the body
            [Emit(PopK(u), Step("RETURN_FROM_CALL",
                                [name |-> top.name, targetVar |-> top.target]))
                EXCEPT !.depth = @ - 1]
      [] top.f = "then" ->                  \* analyzeIfStatement, after consequence
            LET tagged == TagRange(u.steps, top.start, Len(u.steps),
                                   Tag(IfTrue, top.ix))
                post == u.av
                u1 == [PopK(u) EXCEPT !.steps = tagged,
                                      !.av = IF top.cr = Bool(FALSE) THEN top.pre ELSE @]
                u2 == PushK(u1, ElseK(top.ix, Len(u.steps), top.cr, post))
            IN  IF top.el.k # "none" THEN PushK(u2, BlockK(BodyOf(top.el), 1)) ELSE u2
      [] top.f = "else" ->                  \* analyzeIfStatement, after alternative
            [PopK(u) EXCEPT !.steps = TagRange(u.steps, top.start, Len(u.steps),
                                               Tag(IfFalse, top.ix)),
                            !.av = IF top.cr = Bool(TRUE) THEN top.post ELSE @]
      [] top.f = "case" ->                  \* analyzeSwitchStatement's loops
            LET st == top.st
                \* close the case just analysed (ci = 0: none yet)
                label == IF top.ci = 0 THEN <<>>
                         ELSE IF top.ci <= Len(st.cases)
                         THEN CaseLabel(Num(st.cases[top.ci].value))
                         ELSE CaseLabel(Str("default"))
                closed == IF top.ci = 0 THEN u
                          ELSE [u EXCEPT !.steps = TagRange(u.steps, top.start,
                                                            Len(u.steps),
                                                            Tag(label, top.ix))]
                next == top.ci + 1
                start == Len(u.steps)
            IN  IF next <= Len(st.cases)
                THEN PushK(Emit(SetTopK(closed, CaseK(top.ix, st, next, start)),
                                Step("ENTER_CASE", [value |-> Num(st.cases[next].value)])),
                           BlockK(CaseBody(st.cases[next].body), 1))
                ELSE IF next = Len(st.cases) + 1 /\ st.hasDefault
                THEN PushK(Emit(SetTopK(closed, CaseK(top.ix, st, next, start)),
                                Step("ENTER_CASE", [value |-> Str("default")])),
                           BlockK(CaseBody(st.def), 1))
                ELSE PopK(closed)
      [] top.f \in {"while", "for"} -> LoopHead(u, top)
      [] top.f = "whileEnd" ->
            Emit(SetTopK(u, WhileK(top.st, top.it + 1)),
                 Step("EXIT_LOOP_ITERATION", [iteration |-> top.it]))
      [] top.f = "forEnd" ->
            LET upd == top.st.upd
                u1 == SetTopK(u, ForK(top.st, top.it + 1))
                u2 == CASE upd.k = "update_expression" -> analyzeUpdateExpression(u1, upd)
                        [] upd.k = "assignment_expression" -> analyzeAssignment(u1, upd)
                        [] upd.k = "none" -> u1
                        [] OTHER -> analyzeExpressionStatement(u1, upd)
            IN  Emit(u2, Step("EXIT_LOOP_ITERATION", [iteration |-> top.it]))

UnrollDone(u) == Len(u.k) = 0

\* generateSteps, before the walk: the counter, the step list and the
\* runtime variables are reset; analysisVariables and callDepth are not
StartUnroll(i, p, rnd) ==
    [steps |-> IF FunctionIndex(p, "main") # 0
               THEN <<Step("PUSH_FRAME", [name |-> "main"])>> ELSE <<>>,
     ctr |-> StackBase, av |-> i.av, depth |-> i.depth, rnd |-> rnd,
     k |-> IF FunctionIndex(p, "main") # 0
           THEN <<FuncEndK("main"), BlockK(p[FunctionIndex(p, "main")].body, 1)>>
           ELSE <<UnitK(1)>>]

RECURSIVE RunUnroll(_, _)
RunUnroll(u, p) == IF UnrollDone(u) THEN u ELSE RunUnroll(UnrollStep(u, p), p)

\* the interpreter when generateSteps returns
FinishUnroll(i, u) ==
    [i EXCEPT !.steps = u.steps, !.ctr = u.ctr, !.av = u.av, !.depth = u.depth,
              !.rt = EmptyMap]

\* generateSteps(tree) as one synchronous call
generateSteps(i, p, rnd) == FinishUnroll(i, RunUnroll(StartUnroll(i, p, rnd), p))

\* new InterpreterService(vizActions, getState)
NewInterpreter ==
    [steps |-> <<>>, ctr |-> StackBase, av |-> EmptyMap, depth |-> 0,
     rt |-> EmptyMap, cs |-> <<>>, lrv |-> Null, ret |-> FALSE,
     getState |-> FALSE]

\* new InterpreterService(vizActions, getState) with a getState that reads
\* the store
NewInterpreterWithState == [NewInterpreter EXCEPT !.getState = TRUE]

-----------------------------------------------------------------------------
(* The runtime executor: executeSteps and its branch resolution *)

\* The condition travels as text and is matched with
\*   /([\w\[\]]+)\s*(>=|<=|>|<|==|!=)\s*(-?[\w\[\]]+)/
\* after all parentheses are removed: the leftmost comparison operator with
\* the term that ends just before it and the term that starts just after.
RECURSIVE LastTerm(_)
LastTerm(e) ==
    CASE e.k \in {"identifier", "number_literal"} -> e
      [] e.k = "subscript_expression" ->
            IF e.idx.k \in {"identifier", "number_literal"} THEN e ELSE NoNode
      [] e.k = "binary_expression" -> LastTerm(e.r)
      [] e.k \in {"pointer_expression", "unary_expression"} -> LastTerm(e.arg)
      [] OTHER -> NoNode

RECURSIVE FirstTerm(_)
FirstTerm(e) ==
    CASE e.k \in {"identifier", "number_literal"} -> e
      [] e.k = "subscript_expression" ->
            IF e.idx.k \in {"identifier", "number_literal"} THEN e ELSE NoNode
      [] e.k = "binary_expression" -> FirstTerm(e.l)
      [] OTHER -> NoNode

NoMatch == [ok |-> FALSE, l |-> NoNode, op |-> "", r |-> NoNode]

RECURSIVE ComparisonMatch(_)
ComparisonMatch(c) ==
    CASE c.k = "binary_expression" ->
            IF c.op \in {">=", "<=", ">", "<", "==", "!="}
            THEN IF ComparisonMatch(c.l).ok THEN ComparisonMatch(c.l)
                 ELSE IF LastTerm(c.l).k # "none" /\ FirstTerm(c.r).k # "none"
                 THEN [ok |-> TRUE, l |-> LastTerm(c.l), op |-> c.op,
                       r |-> FirstTerm(c.r)]
                 ELSE ComparisonMatch(c.r)
            ELSE IF ComparisonMatch(c.l).ok THEN ComparisonMatch(c.l)
                 ELSE ComparisonMatch(c.r)
      [] c.k = "unary_expression" -> ComparisonMatch(c.arg)
      [] OTHER -> NoMatch

\* evaluateTerm; side is "l" or "r": only the right term keeps a minus sign
evaluateTerm(term, rt, side) ==
    CASE term.k = "subscript_expression" ->
            IF ~Has(rt, term.arg.s) \/ rt[term.arg.s].value.t # "arr" THEN Undef
            ELSE LET es == rt[term.arg.s].value.e
                     ix == IF term.idx.k = "number_literal" THEN Num(term.idx.n)
                           ELSE IF Has(rt, term.idx.s) THEN rt[term.idx.s].value
                           ELSE Undef
                 IN  IF ix.t = "num" /\ 0 <= ix.n /\ ix.n < Len(es)
                     THEN es[ix.n + 1] ELSE Undef
      [] term.k = "identifier" ->
            IF Has(rt, term.s) THEN rt[term.s].value ELSE Undef
      [] term.k = "number_literal" ->
            Num(IF side = "l" THEN Abs(term.n) ELSE term.n)
      [] OTHER -> Undef

evaluateConditionFromState(c, rt) ==
    LET m == ComparisonMatch(c) IN
    IF DOMAIN rt = {} \/ ~m.ok THEN FALSE
    ELSE LET l == evaluateTerm(m.l, rt, "l")
             r == evaluateTerm(m.r, rt, "r")
         IN  IF l.t = "undef" \/ r.t = "undef" THEN FALSE
             ELSE CASE m.op \in {">", "<", ">=", "<="} ->
                        Numeric(l) /\ Numeric(r) /\ Relational(m.op, l, r)
                    [] m.op = "==" -> l = r
                    [] m.op = "!=" -> l # r

\* step.conditionalBranches.some(({branch, parent}) =>
\*     skipBranches.get(parent) === branch)
shouldSkipStep(step, skip) ==
    \E j \in 1..Len(step.cb) :
        Has(skip, step.cb[j].parent) /\ skip[step.cb[j].parent] = step.cb[j].branch

\* the labels the wrong way round: the branch taken is the one suppressed
branchToSkipTaken(conditionResult) == IF conditionResult THEN IfTrue ELSE IfFalse

\* the branch label stored for an IF_STATEMENT: the one NOT taken
branchToSkip(conditionResult) == IF conditionResult THEN IfFalse ELSE IfTrue

\* executeSteps' loop state before the first iteration
ExecuteStepsStart ==
    [pc |-> "loop", i |-> 0, skip |-> EmptyMap, cond |-> EmptyMap, scope |-> EmptyMap,
     executed |-> {}]

ExIdle ==
    [pc |-> "idle", i |-> 0, skip |-> EmptyMap, cond |-> EmptyMap, scope |-> EmptyMap,
     executed |-> {}]

-----------------------------------------------------------------------------
(* Programs typed into the editor *)

Main(ss) == Function("main", <<>>, ss)

\* int* ptr = new int(42); *ptr = 100;
ProgHeap ==
    <<Main(<<Decl("int", <<Pointer("ptr", NewExpr("int", <<NumLit(42)>>))>>),
             ExprStmt(Assign(Deref(Ident("ptr")), NumLit(100)))>>)>>

\* int* a = new int(1); int* b = new int(2);
ProgTwoHeap ==
    <<Main(<<Decl("int", <<Pointer("a", NewExpr("int", <<NumLit(1)>>))>>),
             Decl("int", <<Pointer("b", NewExpr("int", <<NumLit(2)>>))>>)>>)>>

\* int x = 5; int* p = &x; int** h = &p;
\* int arr[2] = {7, 8}; int* e = arr; int* n = new int(42); int** g = &n;
\* cout << "x=" << x << *p << **h << *e << *n << **g << endl;
ProgOutput ==
    <<Main(<<Decl("int", <<Scalar("x", NumLit(5))>>),
             Decl("int", <<Pointer("p", AddressOf(Ident("x")))>>),
             Decl("int", <<Pointer2("h", AddressOf(Ident("p")))>>),
             Decl("int", <<Array("arr", 2, InitList(<<NumLit(7), NumLit(8)>>))>>),
             Decl("int", <<Pointer("e", Ident("arr"))>>),
             Decl("int", <<Pointer("n", NewExpr("int", <<NumLit(42)>>))>>),
             Decl("int", <<Pointer2("g", AddressOf(Ident("n")))>>),
             ExprStmt(Cout(<<StrLit("x="), Ident("x"), Deref(Ident("p")),
                             Deref(Deref(Ident("h"))), Deref(Ident("e")),
                             Deref(Ident("n")), Deref(Deref(Ident("g"))),
                             Endl>>))>>)>>

\* int arr[3] = {1, 2, 3}; int* p = arr; p++; *p = 9;
ProgArray ==
    <<Main(<<Decl("int", <<Array("arr", 3,
                                 InitList(<<NumLit(1), NumLit(2), NumLit(3)>>))>>),
             Decl("int", <<Pointer("p", Ident("arr"))>>),
             ExprStmt(Update(Ident("p"), "++")),
             ExprStmt(Assign(Deref(Ident("p")), NumLit(9)))>>)>>

\* int x = x0; int y = 0; if (x > 5) { y = 1; } else { y = 2; }
ProgIf(x0) ==
    <<Main(<<Decl("int", <<Scalar("x", NumLit(x0))>>),
             Decl("int", <<Scalar("y", NumLit(0))>>),
             If(Binary(">", Ident("x"), NumLit(5)),
                Compound(<<ExprStmt(Assign(Ident("y"), NumLit(1)))>>),
                Compound(<<ExprStmt(Assign(Ident("y"), NumLit(2)))>>))>>)>>

\* int x = x0; int y = y0;
\* if (x > 5) { if (y > 0) { y = 1; } else { y = 2; } } else { y = 3; }
ProgNestedIf(x0, y0) ==
    <<Main(<<Decl("int", <<Scalar("x", NumLit(x0))>>),
             Decl("int", <<Scalar("y", NumLit(y0))>>),
             If(Binary(">", Ident("x"), NumLit(5)),
                Compound(<<If(Binary(">", Ident("y"), NumLit(0)),
                              Compound(<<ExprStmt(Assign(Ident("y"), NumLit(1)))>>),
                              Compound(<<ExprStmt(Assign(Ident("y"), NumLit(2)))>>))>>),
                Compound(<<ExprStmt(Assign(Ident("y"), NumLit(3)))>>))>>)>>

\* int x = x0; int y = 0;
\* switch (x) { case 1: y = 10; break; case 2: y = 20; break; default: y = 30; }
ProgSwitch(x0) ==
    <<Main(<<Decl("int", <<Scalar("x", NumLit(x0))>>),
             Decl("int", <<Scalar("y", NumLit(0))>>),
             Switch(Ident("x"),
                    <<Case(1, <<ExprStmt(Assign(Ident("y"), NumLit(10))), Break>>),
                      Case(2, <<ExprStmt(Assign(Ident("y"), NumLit(20))), Break>>)>>,
                    TRUE,
                    <<ExprStmt(Assign(Ident("y"), NumLit(30)))>>)>>)>>

\* int x = x0; int y = 0;
\* switch (x) { case 1: if (y == 0) { y = 10; } break; default: y = 30; }
ProgSwitchIf(x0) ==
    <<Main(<<Decl("int", <<Scalar("x", NumLit(x0))>>),
             Decl("int", <<Scalar("y", NumLit(0))>>),
             Switch(Ident("x"),
                    <<Case(1, <<If(Binary("==", Ident("y"), NumLit(0)),
                                   Compound(<<ExprStmt(Assign(Ident("y"), NumLit(10)))>>),
                                   NoNode),
                                Break>>)>>,
                    TRUE,
                    <<ExprStmt(Assign(Ident("y"), NumLit(30)))>>)>>)>>

\* int add(int a, int b) { int s = a + b; return s; }
\* int main() { int r = add(2, 3); }
ProgCall ==
    <<Function("add", <<Param("int", "a"), Param("int", "b")>>,
               <<Decl("int", <<Scalar("s", Binary("+", Ident("a"), Ident("b")))>>),
                 Return(Ident("s"))>>),
      Main(<<Decl("int", <<Scalar("r", CallExpr("add", <<NumLit(2), NumLit(3)>>))>>)>>)>>

\* int inc(int x) { int t = x + 1; return t; }
\* int twice(int x) { int u = inc(x); int v = inc(u); return v; }
\* int main() { int x = 1; int r = twice(x); }
ProgNested ==
    <<Function("inc", <<Param("int", "x")>>,
               <<Decl("int", <<Scalar("t", Binary("+", Ident("x"), NumLit(1)))>>),
                 Return(Ident("t"))>>),
      Function("twice", <<Param("int", "x")>>,
               <<Decl("int", <<Scalar("u", CallExpr("inc", <<Ident("x")>>))>>),
                 Decl("int", <<Scalar("v", CallExpr("inc", <<Ident("u")>>))>>),
                 Return(Ident("v"))>>),
      Main(<<Decl("int", <<Scalar("x", NumLit(1))>>),
             Decl("int", <<Scalar("r", CallExpr("twice", <<Ident("x")>>))>>)>>)>>

\* int down(int n) { int q = down(n); return q; }
\* int main() { int r = down(0); }
ProgRecursiveValue ==
    <<Function("down", <<Param("int", "n")>>,
               <<Decl("int", <<Scalar("q", CallExpr("down", <<Ident("n")>>))>>),
                 Return(Ident("q"))>>),
      Main(<<Decl("int", <<Scalar("r", CallExpr("down", <<NumLit(0)>>))>>)>>)>>

\* int* q;   (at file scope: generateSteps visits main only)
\* int main() { int x = 1; *q = 5; q++; q = 3; q->f = 1;
\*              cout << "v=" << *q << q << **q << x;
\*              int* p = &z; *p = 7; cout << *p << endl; }   (z: file scope)
ProgUnbound ==
    <<Main(<<Decl("int", <<Scalar("x", NumLit(1))>>),
             ExprStmt(Assign(Deref(Ident("q")), NumLit(5))),
             ExprStmt(Update(Ident("q"), "++")),
             ExprStmt(Assign(Ident("q"), NumLit(3))),
             ExprStmt(Assign(Field(Ident("q"), "f"), NumLit(1))),
             ExprStmt(Cout(<<StrLit("v="), Deref(Ident("q")), Ident("q"),
                             Deref(Deref(Ident("q"))), Ident("x")>>)),
             Decl("int", <<Pointer("p", AddressOf(Ident("z")))>>),
             ExprStmt(Assign(Deref(Ident("p")), NumLit(7))),
             ExprStmt(Cout(<<Deref(Ident("p")), Endl>>))>>)>>

\* int first(int a, int b) { int s = a; return s; }
\* int one(int a) { return a; }
\* int main() { int r = first(1); int t = one(2, 3); }
ProgArity ==
    <<Function("first", <<Param("int", "a"), Param("int", "b")>>,
               <<Decl("int", <<Scalar("s", Ident("a"))>>),
                 Return(Ident("s"))>>),
      Function("one", <<Param("int", "a")>>, <<Return(Ident("a"))>>),
      Main(<<Decl("int", <<Scalar("r", CallExpr("first", <<NumLit(1)>>))>>),
             Decl("int", <<Scalar("t", CallExpr("one", <<NumLit(2), NumLit(3)>>))>>)>>)>>

\* void f(int a) { }  int main() { f(1); }
ProgParam ==
    <<Function("f", <<Param("int", "a")>>, <<>>),
      Main(<<ExprStmt(CallExpr("f", <<NumLit(1)>>))>>)>>

\* int x = 3; int y = 0; int z = 0;
\* if (x > 1 && y > 5) { z = 1; } else { z = 2; }
ProgAnd ==
    <<Main(<<Decl("int", <<Scalar("x", NumLit(3))>>),
             Decl("int", <<Scalar("y", NumLit(0))>>),
             Decl("int", <<Scalar("z", NumLit(0))>>),
             If(Binary("&&", Binary(">", Ident("x"), NumLit(1)),
                             Binary(">", Ident("y"), NumLit(5))),
                Compound(<<ExprStmt(Assign(Ident("z"), NumLit(1)))>>),
                Compound(<<ExprStmt(Assign(Ident("z"), NumLit(2)))>>))>>)>>

\* int x = 5; int y = 6; int* p = &x; int** h = &p; *p = 7; *h = &y;
ProgDeref ==
    <<Main(<<Decl("int", <<Scalar("x", NumLit(5))>>),
             Decl("int", <<Scalar("y", NumLit(6))>>),
             Decl("int", <<Pointer("p", AddressOf(Ident("x")))>>),
             Decl("int", <<Pointer2("h", AddressOf(Ident("p")))>>),
             ExprStmt(Assign(Deref(Ident("p")), NumLit(7))),
             ExprStmt(Assign(Deref(Ident("h")), AddressOf(Ident("y"))))>>)>>

\* int x = 5; int* p = &x; p->f = 1; int* n = new int(1); n->f = 2;
ProgField ==
    <<Main(<<Decl("int", <<Scalar("x", NumLit(5))>>),
             Decl("int", <<Pointer("p", AddressOf(Ident("x")))>>),
             ExprStmt(Assign(Field(Ident("p"), "f"), NumLit(1))),
             Decl("int", <<Pointer("n", NewExpr("int", <<NumLit(1)>>))>>),
             ExprStmt(Assign(Field(Ident("n"), "f"), NumLit(2)))>>)>>

\* int arr[3] = {1, 2, 3}; int x = 5; int* q = arr; int* p = arr;
\* p = q + 2; q = &x; p = q + 1;
ProgArith ==
    <<Main(<<Decl("int", <<Array("arr", 3,
                                 InitList(<<NumLit(1), NumLit(2), NumLit(3)>>))>>),
             Decl("int", <<Scalar("x", NumLit(5))>>),
             Decl("int", <<Pointer("q", Ident("arr"))>>),
             Decl("int", <<Pointer("p", Ident("arr"))>>),
             ExprStmt(Assign(Ident("p"), Binary("+", Ident("q"), NumLit(2)))),
             ExprStmt(Assign(Ident("q"), AddressOf(Ident("x")))),
             ExprStmt(Assign(Ident("p"), Binary("+", Ident("q"), NumLit(1))))>>)>>

\* int f(int a) { if (a > 0) { return 1; } return 2; }
\* int main() { int r = f(5); }
ProgEarlyReturn ==
    <<Function("f", <<Param("int", "a")>>,
               <<If(Binary(">", Ident("a"), NumLit(0)),
                    Compound(<<Return(NumLit(1))>>), NoNode),
                 Return(NumLit(2))>>),
      Main(<<Decl("int", <<Scalar("r", CallExpr("f", <<NumLit(5)>>))>>)>>)>>

\* int arr[3] = {1, 2, 3}; arr[1] = 9;
ProgElem ==
    <<Main(<<Decl("int", <<Array("arr", 3,
                                 InitList(<<NumLit(1), NumLit(2), NumLit(3)>>))>>),
             ExprStmt(Assign(Subscript(Ident("arr"), NumLit(1)), NumLit(9)))>>)>>

\* int arr[3] = {1, 2, 3}; int* p = arr; p++; p = p + 2; *p = 9;
ProgPastEnd ==
    <<Main(<<Decl("int", <<Array("arr", 3,
                                 InitList(<<NumLit(1), NumLit(2), NumLit(3)>>))>>),
             Decl("int", <<Pointer("p", Ident("arr"))>>),
             ExprStmt(Update(Ident("p"), "++")),
             ExprStmt(Assign(Ident("p"), Binary("+", Ident("p"), NumLit(2)))),
             ExprStmt(Assign(Deref(Ident("p")), NumLit(9)))>>)>>

\* int arr[3] = {1, 2, 3}; int n = 5; int* p = arr; n--; n++; p--; p++;
ProgDownUp ==
    <<Main(<<Decl("int", <<Array("arr", 3,
                                 InitList(<<NumLit(1), NumLit(2), NumLit(3)>>))>>),
             Decl("int", <<Scalar("n", NumLit(5))>>),
             Decl("int", <<Pointer("p", Ident("arr"))>>),
             ExprStmt(Update(Ident("n"), "--")),
             ExprStmt(Update(Ident("n"), "++")),
             ExprStmt(Update(Ident("p"), "--")),
             ExprStmt(Update(Ident("p"), "++"))>>)>>

\* int x = 1; x = x + 2; int* p = &x; *p = 10; x = x + 1;
ProgSelfAssign ==
    <<Main(<<Decl("int", <<Scalar("x", NumLit(1))>>),
             ExprStmt(Assign(Ident("x"), Binary("+", Ident("x"), NumLit(2)))),
             Decl("int", <<Pointer("p", AddressOf(Ident("x")))>>),
             ExprStmt(Assign(Deref(Ident("p")), NumLit(10))),
             ExprStmt(Assign(Ident("x"), Binary("+", Ident("x"), NumLit(1))))>>)>>

\* int x = 3; if (x > 5) { x = 1; }
ProgIfOnly ==
    <<Main(<<Decl("int", <<Scalar("x", NumLit(3))>>),
             If(Binary(">", Ident("x"), NumLit(5)),
                Compound(<<ExprStmt(Assign(Ident("x"), NumLit(1)))>>),
                NoNode)>>)>>

\* void f() { f(); }  int main() { f(); }
ProgRecursion ==
    <<Function("f", <<>>, <<ExprStmt(CallExpr("f", <<>>))>>),
      Main(<<ExprStmt(CallExpr("f", <<>>))>>)>>

\* void f() { int n; while (n < 1) { n++; } }
\* int main() { f(); int n = 0; }
ProgStale ==
    <<Function("f", <<>>,
               <<Decl("int", <<Scalar("n", NoNode)>>),
                 While(Binary("<", Ident("n"), NumLit(1)),
                       Compound(<<ExprStmt(Update(Ident("n"), "++"))>>))>>),
      Main(<<ExprStmt(CallExpr("f", <<>>)),
             Decl("int", <<Scalar("n", NumLit(0))>>)>>)>>

\* void f(int x) { int y = 9; }
\* int main() { int x = 1; int y = 2; f(5); }
ProgShadow ==
    <<Function("f", <<Param("int", "x")>>,
               <<Decl("int", <<Scalar("y", NumLit(9))>>)>>),
      Main(<<Decl("int", <<Scalar("x", NumLit(1))>>),
             Decl("int", <<Scalar("y", NumLit(2))>>),
             ExprStmt(CallExpr("f", <<NumLit(5)>>))>>)>>

\* int i = 0; while (i >= 0) { i++; }
ProgWhile ==
    <<Main(<<Decl("int", <<Scalar("i", NumLit(0))>>),
             While(Binary(">=", Ident("i"), NumLit(0)),
                   Compound(<<ExprStmt(Update(Ident("i"), "++"))>>))>>)>>

\* for (int i = 0; ; i++) { int k = i; }
ProgFor ==
    <<Main(<<For(Decl("int", <<Scalar("i", NumLit(0))>>), NoNode,
                 Update(Ident("i"), "++"),
                 Compound(<<Decl("int", <<Scalar("k", Ident("i"))>>)>>))>>)>>

\* int i = 0; while (i < n) { i++; }
ProgWhileUpTo(n) ==
    <<Main(<<Decl("int", <<Scalar("i", NumLit(0))>>),
             While(Binary("<", Ident("i"), NumLit(n)),
                   Compound(<<ExprStmt(Update(Ident("i"), "++"))>>))>>)>>

\* for (int i = 0; i < n; i++) { int k = i; }
ProgForUpTo(n) ==
    <<Main(<<For(Decl("int", <<Scalar("i", NumLit(0))>>),
                 Binary("<", Ident("i"), NumLit(n)),
                 Update(Ident("i"), "++"),
                 Compound(<<Decl("int", <<Scalar("k", Ident("i"))>>)>>))>>)>>

\* int x = 10, y = 99; int* ptr = &x; ptr = &y;
ProgPointer ==
    <<Main(<<Decl("int", <<Scalar("x", NumLit(10)), Scalar("y", NumLit(99))>>),
             Decl("int", <<Pointer("ptr", AddressOf(Ident("x")))>>),
             ExprStmt(Assign(Ident("ptr"), AddressOf(Ident("y"))))>>)>>

\* void g() { int n = 1; }      (no main: every function is laid out)
ProgNoMain ==
    <<Function("g", <<>>, <<Decl("int", <<Scalar("n", NumLit(1))>>)>>)>>

-----------------------------------------------------------------------------
(* Values of the variables a specification does not use *)

UnIdle == [pc |-> "idle",
           u |-> [steps |-> <<>>, ctr |-> StackBase, av |-> EmptyMap, depth |-> 0,
                  rnd |-> <<>>, k |-> <<>>]]

EdIdle == [currentStep |-> 0, totalSteps |-> 0, isPlaying |-> FALSE,
           isPaused |-> FALSE, steps |-> <<>>, shouldStop |-> FALSE,
           paused |-> FALSE]

HistIdle == [runs |-> 0, prevLog |-> <<>>, mode |-> "none", seeks |-> <<>>,
             nseeks |-> 0, resets |-> 0, ctr0 |-> StackBase]

\* Math.random() draws of one generateSteps call
MaxRand == 1
\* one draw of Math.random() for each new expression; the programs here
\* hold two at most
RandomDraws == {<<r1, r2>> : r1 \in 0..MaxRand, r2 \in 0..MaxRand}

-----------------------------------------------------------------------------
(* Specification 1: generateSteps, one analysis step at a time *)

MaxGenerations == 2

UnrollPrograms ==
    {ProgHeap, ProgArray, ProgIf(3), ProgIf(7), ProgNestedIf(7, 0), ProgSwitch(5),
     ProgCall, ProgRecursion, ProgWhile, ProgFor, ProgNoMain, ProgWhileUpTo(0),
     ProgWhileUpTo(2), ProgForUpTo(3), ProgStale, ProgShadow,
     ProgAnd, ProgTwoHeap}

InitUnroll ==
    /\ prog \in UnrollPrograms
    /\ interp = NewInterpreter
    /\ viz = InitialViz
    /\ un = UnIdle
    /\ ex = ExIdle
    /\ ed = EdIdle
    /\ loops = <<>>
    /\ hist = HistIdle

\* generateSteps(tree) is entered
GenerateStepsCall ==
    /\ un.pc = "idle"
    /\ hist.runs < MaxGenerations
    /\ \E rnd \in RandomDraws :
          un' = [pc |-> "walk", u |-> StartUnroll(interp, prog, rnd)]
    /\ hist' = [hist EXCEPT !.runs = @ + 1]
    /\ UNCHANGED <<prog, interp, viz, ex, ed, loops>>

\* the analysis is about to resume in a frame of one of the given kinds
Walking(kinds) ==
    un.pc = "walk" /\ ~UnrollDone(un.u) /\ TopK(un.u).f \in kinds

\* analyzeNode / analyzeFunctionDefinition
UnrollFunction ==
    /\ Walking({"unit", "funcEnd"})
    /\ un' = [un EXCEPT !.u = UnrollStep(un.u, prog)]
    /\ UNCHANGED <<prog, interp, viz, ex, ed, loops, hist>>

\* analyzeFunctionBody: the next statement of a block
UnrollBlock ==
    /\ Walking({"block"})
    /\ un' = [un EXCEPT !.u = UnrollStep(un.u, prog)]
    /\ UNCHANGED <<prog, interp, viz, ex, ed, loops, hist>>

\* analyzeDeclaration: the next declarator
UnrollDeclaration ==
    /\ Walking({"decl"})
    /\ un' = [un EXCEPT !.u = UnrollStep(un.u, prog)]
    /\ UNCHANGED <<prog, interp, viz, ex, ed, loops, hist>>

\* analyzeFunctionCall: the callee's body is done
UnrollCallReturn ==
    /\ Walking({"callRet"})
    /\ un' = [un EXCEPT !.u = UnrollStep(un.u, prog)]
    /\ UNCHANGED <<prog, interp, viz, ex, ed, loops, hist>>

\* analyzeIfStatement: a branch is done and is tagged
UnrollIfBranch ==
    /\ Walking({"then", "else"})
    /\ un' = [un EXCEPT !.u = UnrollStep(un.u, prog)]
    /\ UNCHANGED <<prog, interp, viz, ex, ed, loops, hist>>

\* analyzeSwitchStatement: the next case
UnrollSwitchCase ==
    /\ Walking({"case"})
    /\ un' = [un EXCEPT !.u = UnrollStep(un.u, prog)]
    /\ UNCHANGED <<prog, interp, viz, ex, ed, loops, hist>>

\* analyzeWhileStatement / analyzeForStatement: the next iteration
UnrollLoopHead ==
    /\ Walking({"while", "for"})
    /\ un' = [un EXCEPT !.u = UnrollStep(un.u, prog)]
    /\ UNCHANGED <<prog, interp, viz, ex, ed, loops, hist>>

\* the end of a loop iteration
UnrollLoopEnd ==
    /\ Walking({"whileEnd", "forEnd"})
    /\ un' = [un EXCEPT !.u = UnrollStep(un.u, prog)]
    /\ UNCHANGED <<prog, interp, viz, ex, ed, loops, hist>>

\* generateSteps returns this.executionSteps
GenerateStepsReturn ==
    /\ un.pc = "walk"
    /\ UnrollDone(un.u)
    /\ interp' = FinishUnroll(interp, un.u)
    /\ un' = UnIdle
    /\ UNCHANGED <<prog, viz, ex, ed, loops, hist>>

NextUnroll ==
    \/ GenerateStepsCall
    \/ UnrollFunction
    \/ UnrollBlock
    \/ UnrollDeclaration
    \/ UnrollCallReturn
    \/ UnrollIfBranch
    \/ UnrollSwitchCase
    \/ UnrollLoopHead
    \/ UnrollLoopEnd
    \/ GenerateStepsReturn

SpecUnroll == InitUnroll /\ [][NextUnroll]_vars

\* generateSteps is synchronous: once entered it runs on until it returns
FairSpecUnroll == SpecUnroll /\ WF_vars(NextUnroll)

\* C26: every generateSteps call starts its analysis with an empty analysis
\* variable map, and the list it returns is the list a new interpreter
\* returns for the same tree.
C26_AnalysisStartsEmpty ==
    /\ [][GenerateStepsCall => un'.u.av = EmptyMap]_vars
    /\ [][GenerateStepsReturn =>
              \E rnd \in RandomDraws :
                  interp'.steps = generateSteps(NewInterpreter, prog, rnd).steps]_vars

\* the loop frames of the analysis in progress
LoopFrames(u) ==
    {j \in 1..Len(u.k) : u.k[j].f \in {"while", "whileEnd", "for", "forEnd"}}

\* C6: generateSteps terminates with a finite list for every program, also
\* one whose recursion never bottoms out or whose loop condition never
\* turns false: while it runs, no call is nested deeper than the ceiling
\* allows and no loop is unrolled past MAX_ITERATIONS, and every call of
\* generateSteps returns.
C6_GenerateStepsTerminates ==
    /\ [](un.pc = "walk" =>
            /\ un.u.depth <= MaxCallDepth + 1
            /\ \A j \in LoopFrames(un.u) : un.u.k[j].it <= MaxIterations)
    /\ ((un.pc = "walk") ~> (un.pc = "idle"))

\* a generateSteps call over a program that recurses without a base case,
\* or loops on a condition that stays true, has returned
C6_Witness ==
    /\ prog \in {ProgRecursion, ProgWhile, ProgFor}
    /\ un.pc = "idle"
    /\ hist.runs > 0
    /\ Len(interp.steps) > MaxIterations

\* the CALL steps of a list that have no RETURN_FROM_CALL yet
OpenCallSteps(steps) ==
    Cardinality({j \in 1..Len(steps) : steps[j].type = "CALL"})
    - Cardinality({j \in 1..Len(steps) : steps[j].type = "RETURN_FROM_CALL"})

\* C19: while generateSteps builds the list, the CALL steps emitted without
\* their RETURN_FROM_CALL yet are never more than 20.
C19_OpenCallsWithinCeiling ==
    un.pc = "walk" => OpenCallSteps(un.u.steps) <= MaxCallDepth

\* the programs above that hold one loop, in main
LoopPrograms ==
    {ProgWhile, ProgFor, ProgWhileUpTo(0), ProgWhileUpTo(2), ProgForUpTo(3)}

LoopStepTypes == {"EVALUATE_LOOP_CONDITION", "ENTER_LOOP", "EXIT_LOOP_ITERATION"}

\* the indices (from 1) of the steps of a type
StepsOfType(steps, type) == {j \in 1..Len(steps) : steps[j].type = type}

\* C20: a loop is unrolled for at most 10 iterations; every considered
\* iteration has its EVALUATE_LOOP_CONDITION step, the failing one too, so
\* a loop that ends on a false condition after n entered iterations has
\* n+1 of them; an entered iteration is the condition check, ENTER_LOOP,
\* the body, the for-update, and EXIT_LOOP_ITERATION, in that order.
C20_LoopUnrolling ==
    (prog \in LoopPrograms /\ un.pc = "idle" /\ hist.runs > 0) =>
        LET steps == interp.steps
            checks == StepsOfType(steps, "EVALUATE_LOOP_CONDITION")
            enters == StepsOfType(steps, "ENTER_LOOP")
            exits == StepsOfType(steps, "EXIT_LOOP_ITERATION")
            failing == {j \in checks : ~Truthy(steps[j].data.result)}
            \* the first loop step after index j, 0 if none
            after(j) == IF \E q \in (j + 1)..Len(steps) : steps[q].type \in LoopStepTypes
                        THEN CHOOSE q \in (j + 1)..Len(steps) :
                                 /\ steps[q].type \in LoopStepTypes
                                 /\ \A w \in (j + 1)..(q - 1) :
                                        steps[w].type \notin LoopStepTypes
                        ELSE 0
        IN  /\ Cardinality(enters) <= MaxIterations
            /\ Cardinality(exits) = Cardinality(enters)
            /\ failing # {} => Cardinality(checks) = Cardinality(enters) + 1
            /\ failing = {} => Cardinality(enters) = MaxIterations
            \* a check that holds is followed at once by ENTER_LOOP of the
            \* same iteration, a failing one by no loop step at all
            /\ \A j \in checks :
                   IF Truthy(steps[j].data.result)
                   THEN /\ j + 1 \in enters
                        /\ steps[j + 1].data.iteration = steps[j].data.iteration
                   ELSE after(j) = 0
            \* ENTER_LOOP comes right after its check, its body follows, and
            \* the next loop step is the EXIT_LOOP_ITERATION of the iteration
            /\ \A j \in enters :
                   /\ j - 1 \in checks
                   /\ after(j) \in exits
                   /\ steps[after(j)].data.iteration = steps[j].data.iteration
                   /\ after(j) > j + 1
                   /\ prog \in {ProgFor, ProgForUpTo(3)} =>
                          /\ after(j) = j + 3
                          /\ steps[j + 1].type = "SET_VARIABLE"
                          /\ steps[j + 1].data.name = "k"
                          /\ steps[j + 2].type = "POINTER_INCREMENT"
                          /\ steps[j + 2].data.name = "i"
            \* after EXIT_LOOP_ITERATION: the next check, or the ceiling
            /\ \A j \in exits :
                   \/ /\ j + 1 \in checks
                      /\ steps[j + 1].data.iteration = steps[j].data.iteration + 1
                   \/ /\ after(j) = 0
                      /\ steps[j].data.iteration = MaxIterations - 1
            /\ \A j \in checks : steps[j].data.iteration = 0 <=>
                                     \A q \in checks : j <= q

\* a loop left on a false condition after two iterations: three checks
C20_Witness ==
    /\ prog = ProgWhileUpTo(2)
    /\ un.pc = "idle"
    /\ hist.runs > 0
    /\ Cardinality(StepsOfType(interp.steps, "EVALUATE_LOOP_CONDITION")) = 3
    /\ Cardinality(StepsOfType(interp.steps, "ENTER_LOOP")) = 2

\* C27: once the call f(5) of ProgShadow is unrolled, main's x and y have
\* the analysis values they had before it, 1 and 2, although f has a
\* parameter x and a local y.
C27_CallerAnalysisValuesKept ==
    (/\ prog = ProgShadow
     /\ un.pc = "walk"
     /\ StepsOfType(un.u.steps, "RETURN_FROM_CALL") # {})
        => un.u.av["x"] = Num(1) /\ un.u.av["y"] = Num(2)

EmittedSteps == IF un.pc = "walk" THEN un.u.steps ELSE interp.steps

\* the largest heap token: '0x5F' followed by four hexadecimal digits
HeapTop == HeapBase + 65535

\* C30: in a step list the addresses of the SET_VARIABLE steps increase
\* strictly in emission order, so no two are equal; every one is at or above
\* the stack base, every ALLOCATE_HEAP address lies in the heap range, and
\* the heap range ends below the stack base: no stack token is a heap token.
C30_StackAddressesIncrease ==
    LET steps == EmittedSteps
        decls == StepsOfType(steps, "SET_VARIABLE")
        allocs == StepsOfType(steps, "ALLOCATE_HEAP")
    IN  /\ \A i, j \in decls :
               i < j => steps[i].data.address < steps[j].data.address
        /\ \A i \in decls : steps[i].data.address >= StackBase
        /\ \A h \in allocs :
               HeapBase <= steps[h].data.address /\ steps[h].data.address <= HeapTop
        /\ HeapTop < StackBase
        /\ \A i \in decls : \A h \in allocs :
               steps[i].data.address # steps[h].data.address

\* the list of ProgTwoHeap is complete: two declarations and two heap
\* allocations
C30_Witness ==
    /\ prog = ProgTwoHeap
    /\ un.pc = "idle"
    /\ Cardinality(StepsOfType(interp.steps, "SET_VARIABLE")) = 2
    /\ Cardinality(StepsOfType(interp.steps, "ALLOCATE_HEAP")) = 2

-----------------------------------------------------------------------------
(* Specification 2: executeSteps over the list generateSteps returned,    *)
(* called again on the same interpreter after the store is cleared         *)

MaxReplays == 2

ReplayPrograms ==
    {ProgHeap, ProgArray, ProgIf(3), ProgIf(7), ProgNestedIf(3, 0),
     ProgNestedIf(7, 0), ProgNestedIf(7, 1), ProgSwitch(1), ProgSwitch(5), ProgCall,
     ProgPointer, ProgSwitchIf(1), ProgSwitchIf(5), ProgNested,
     ProgRecursiveValue, ProgUnbound, ProgTwoHeap, ProgOutput, ProgArity, ProgAnd, ProgDeref, ProgField, ProgArith,
     ProgEarlyReturn, ProgElem, ProgPastEnd,
     ProgDownUp, ProgSelfAssign}

\* the service as the Editor constructs it (its getState is undefined:
\* part_005, lines 11 and 245) or constructed with a getState
InitReplay ==
    /\ prog \in ReplayPrograms
    /\ \E rnd \in RandomDraws, i \in {NewInterpreter, NewInterpreterWithState} :
           interp = generateSteps(i, prog, rnd)
    /\ viz = InitialViz
    /\ un = UnIdle
    /\ ex = ExIdle
    /\ ed = EdIdle
    /\ loops = <<>>
    /\ hist = HistIdle

\* vizActions.reset(); interpreter.executeSteps(steps)
ExecuteStepsCall ==
    /\ ex.pc = "idle"
    /\ hist.runs < MaxReplays
    /\ viz' = VizReset(viz)
    /\ ex' = ExecuteStepsStart
    /\ hist' = [hist EXCEPT !.runs = @ + 1, !.prevLog = viz.log]
    /\ UNCHANGED <<prog, interp, un, ed, loops>>

\* an iteration that ends at `continue`
ExecuteStepsSkip ==
    /\ ex.pc = "loop"
    /\ ex.i < Len(interp.steps)
    /\ shouldSkipStep(interp.steps[ex.i + 1], ex.skip)
    /\ ex' = [ex EXCEPT !.i = @ + 1]
    /\ UNCHANGED <<prog, interp, viz, un, ed, loops, hist>>

\* an iteration that reaches executeStep(step) and the delay after it
ExecuteStepsApply ==
    /\ ex.pc = "loop"
    /\ ex.i < Len(interp.steps)
    /\ ~shouldSkipStep(interp.steps[ex.i + 1], ex.skip)
    /\ LET step == interp.steps[ex.i + 1]
           isIf == step.type = "IF_STATEMENT"
           conditionResult ==
               isIf /\ evaluateConditionFromState(step.data.condition, interp.rt)
       IN  /\ ex' = [ex EXCEPT
                        !.i = @ + 1,
                        !.skip = IF isIf THEN Put(@, ex.i, branchToSkip(conditionResult))
                                 ELSE @,
                        !.cond = IF isIf THEN Put(@, ex.i, conditionResult) ELSE @,
                        !.scope = IF step.type = "CALL" THEN Put(@, ex.i, interp.rt)
                                  ELSE @,
                        !.executed = @ \cup {ex.i}]
           /\ With(ExecStep(Machine(interp, viz), step), LAMBDA m :
                  interp' = m.i /\ viz' = m.v)
    /\ UNCHANGED <<prog, un, ed, loops, hist>>

\* the loop is over: executeSteps resolves
ExecuteStepsReturn ==
    /\ ex.pc = "loop"
    /\ ex.i = Len(interp.steps)
    /\ ex' = [ex EXCEPT !.pc = "idle"]
    /\ UNCHANGED <<prog, interp, viz, un, ed, loops, hist>>

NextReplay ==
    \/ ExecuteStepsCall
    \/ ExecuteStepsSkip
    \/ ExecuteStepsApply
    \/ ExecuteStepsReturn

SpecReplay == InitReplay /\ [][NextReplay]_vars

\* executeSteps has been called and has returned
ReplayComplete == ex.pc = "idle" /\ hist.runs >= 1

HasTag(step, branch, parent) ==
    \E j \in 1..Len(step.cb) :
        step.cb[j].parent = parent /\ step.cb[j].branch = branch

\* the step carries a tag of another marker whose stored label suppresses it
SuppressedByOther(step, parent) ==
    \E j \in 1..Len(step.cb) :
        /\ step.cb[j].parent # parent
        /\ Has(ex.skip, step.cb[j].parent)
        /\ ex.skip[step.cb[j].parent] = step.cb[j].branch

DefaultLabel == CaseLabel(Str("default"))

\* the labels of the steps tagged under the marker at index i
LabelsUnder(steps, i) ==
    UNION {{steps[j].cb[t].branch :
               t \in {t \in 1..Len(steps[j].cb) : steps[j].cb[t].parent = i}} :
           j \in 1..Len(steps)}

\* the switch at index i has a default and no case for the runtime value of
\* its variable (the programs here assign nothing to it inside the switch)
NoMatchingCase(i) ==
    LET x == interp.steps[i + 1].data.variable.s
        labels == LabelsUnder(interp.steps, i)
    IN  /\ Has(interp.rt, x)
        /\ CaseLabel(interp.rt[x].value) \notin labels
        /\ DefaultLabel \in labels

\* C2: for a switch whose runtime value matches no case and which has a
\* default, the only steps tagged under that switch that are executed are
\* the ones tagged 'case-default'.
C2_OnlyDefaultExecutes ==
    \A i \in ex.executed :
        (interp.steps[i + 1].type = "SWITCH_STATEMENT" /\ NoMatchingCase(i)) =>
            \A j \in ex.executed :
                \A t \in 1..Len(interp.steps[j + 1].cb) :
                    interp.steps[j + 1].cb[t].parent = i =>
                        interp.steps[j + 1].cb[t].branch = DefaultLabel

\* C5: two replays of the same step list, each from a cleared store, make
\* the same sequence of store calls with the same arguments, the address
\* handed to setVariable included.
C5_ReplaysMakeTheSameCalls ==
    (ex.pc = "idle" /\ hist.runs >= 2) => viz.log = hist.prevLog

\* the positions of the calls of one store action in the log
CallsOf(op) == {c \in 1..Len(viz.log) : viz.log[c].op = op}

\* C9: int* ptr = new int(42); *ptr = 100; allocates exactly one heap cell
\* holding 42, and the dereference assignment then calls updateHeap on the
\* address of that cell, which holds 100 afterwards.
C9_DerefAssignUpdatesHeapCell ==
    (prog = ProgHeap /\ ReplayComplete) =>
        /\ Cardinality(CallsOf("allocateHeap")) = 1
        /\ \A a \in CallsOf("allocateHeap") :
              /\ viz.log[a].value = Num(42)
              /\ \E w \in CallsOf("updateHeap") :
                    /\ w > a
                    /\ viz.log[w].address = viz.log[a].address
                    /\ viz.log[w].value = Num(100)
              /\ Has(viz.heap, viz.log[a].address)
              /\ viz.heap[viz.log[a].address].value = Num(100)

\* C10: int arr[3] = {1, 2, 3}; int* p = arr; p++; *p = 9; leaves the
\* runtime array at [1, 9, 3], and that is the last value of arr the store
\* was given.
C10_PointerWalkWritesSecondElement ==
    (prog = ProgArray /\ ReplayComplete) =>
        /\ Has(interp.rt, "arr")
        /\ interp.rt["arr"].value = Arr(<<Num(1), Num(9), Num(3)>>)
        /\ interp.rt["p"].value = ElemRef("arr", 1)
        /\ \E c \in CallsOf("setVariable") :
              /\ viz.log[c].name = "arr"
              /\ viz.log[c].value = Arr(<<Num(1), Num(9), Num(3)>>)
              /\ \A d \in CallsOf("setVariable") : viz.log[d].name = "arr" => d <= c

\* the replay of that program is over, the write through p included
C10_Witness ==
    /\ prog = ProgArray
    /\ ReplayComplete
    /\ \E j \in ex.executed : interp.steps[j + 1].type = "DEREF_ASSIGN"
    /\ \E j \in ex.executed : interp.steps[j + 1].type = "POINTER_INCREMENT"

\* the branch selected at runtime under the marker at index i: for an if,
\* by the condition as it evaluated when the marker was reached; for a
\* switch, the case of the runtime value of its variable, else the default
\* (the programs here assign nothing to that variable inside the switch)
SelectedBranch(i) ==
    IF interp.steps[i + 1].type = "IF_STATEMENT"
    THEN IF ex.cond[i] THEN IfTrue ELSE IfFalse
    ELSE LET x == interp.steps[i + 1].data.variable.s
             v == IF Has(interp.rt, x) THEN interp.rt[x].value ELSE Undef
         IN  IF CaseLabel(v) \in LabelsUnder(interp.steps, i) THEN CaseLabel(v)
             ELSE DefaultLabel

\* the tag's owner was reached and the tag names the branch it selected
TagSatisfied(tag) ==
    tag.parent \in ex.executed /\ tag.branch = SelectedBranch(tag.parent)

\* C12: a step that carries several branch tags is forwarded to executeStep
\* exactly when every one of its tags names the branch selected at runtime
\* for its owner; one tag of a branch not selected suppresses it.
C12_AnyUnselectedTagSuppresses ==
    \A j \in 0..(ex.i - 1) :
        Len(interp.steps[j + 1].cb) >= 2 =>
            (j \in ex.executed <=>
                \A t \in 1..Len(interp.steps[j + 1].cb) :
                    TagSatisfied(interp.steps[j + 1].cb[t]))

\* the number of calls open when the step at index j is reached
OpenCalls(j) ==
    Cardinality({c \in 0..(j - 1) : interp.steps[c + 1].type = "CALL"})
    - Cardinality({c \in 0..(j - 1) : interp.steps[c + 1].type = "RETURN_FROM_CALL"})

\* the innermost call open when the step at index j is reached, -1 in main
EnclosingCall(j) ==
    LET opening == {c \in 0..(j - 1) :
                       /\ interp.steps[c + 1].type = "CALL"
                       /\ OpenCalls(c) = OpenCalls(j) - 1}
    IN  IF opening = {} THEN -1
        ELSE CHOOSE c \in opening : \A d \in opening : d <= c

\* the index of the CALL step that the RETURN_FROM_CALL step at index j
\* closes
MatchingCall(j) == EnclosingCall(j)

\* the steps applied since the step at index c that bind a name
BoundSince(c) ==
    {interp.steps[j + 1].data.name :
        j \in {e \in ex.executed :
                 /\ e > c
                 /\ interp.steps[e + 1].type \in {"SET_VARIABLE", "PARAM_INIT"}}}

\* executeStep is being applied to a step of the given type
Applying(type) ==
    /\ ex.pc = "loop"
    /\ ex.i < Len(interp.steps)
    /\ interp.steps[ex.i + 1].type = type
    /\ ex'.executed = ex.executed \cup {ex.i}

\* C13: while a callee runs the current scope holds only names bound since
\* its CALL (the scope is empty right after CALL), and the scope after the
\* matching RETURN_FROM_CALL is the caller's scope as it was when CALL was
\* applied, but for the value of the target variable; nested and recursive
\* calls included.
C13_ScopesIsolated ==
    /\ [](ex.pc = "loop" /\ EnclosingCall(ex.i) >= 0 /\
              EnclosingCall(ex.i) \in ex.executed
              => DOMAIN interp.rt \subseteq BoundSince(EnclosingCall(ex.i)))
    /\ [][Applying("CALL") => interp'.rt = EmptyMap]_vars
    /\ [][Applying("RETURN_FROM_CALL") =>
              LET saved == ex.scope[MatchingCall(ex.i)]
                  target == interp.steps[ex.i + 1].data.targetVar
              IN  /\ DOMAIN interp'.rt = DOMAIN saved
                  /\ \A x \in DOMAIN saved :
                         /\ x # target => interp'.rt[x] = saved[x]
                         /\ interp'.rt[x].type = saved[x].type
                         /\ interp'.rt[x].address = saved[x].address]_vars

\* a call nested in a call has returned to a caller that holds bindings
C13_Witness ==
    /\ ex.pc = "loop"
    /\ ex.i > 0
    /\ ex.i - 1 \in ex.executed
    /\ interp.steps[ex.i].type = "RETURN_FROM_CALL"
    /\ EnclosingCall(ex.i) >= 0
    /\ Cardinality(DOMAIN interp.rt) >= 2

\* the RETURN steps applied in the activation opened by the CALL at index
\* c, before the step at index j
ReturnsOf(c, j) ==
    {r \in ex.executed :
        /\ c < r /\ r < j
        /\ interp.steps[r + 1].type = "RETURN"
        /\ EnclosingCall(r) = c}

\* C14: RETURN_FROM_CALL with a target variable writes the value of the
\* most recent RETURN step applied inside that call into the caller's
\* binding of the variable: the scope after the step is the caller's (its
\* names, the target's type and address), and the store is told the same
\* value.
C14_ReturnValueReachesCaller ==
    [][(/\ Applying("RETURN_FROM_CALL")
        /\ interp.steps[ex.i + 1].data.targetVar # ""
        /\ ReturnsOf(MatchingCall(ex.i), ex.i) # {})
       => LET c == MatchingCall(ex.i)
              target == interp.steps[ex.i + 1].data.targetVar
              last == CHOOSE r \in ReturnsOf(c, ex.i) :
                          \A q \in ReturnsOf(c, ex.i) : q <= r
              value == interp.steps[last + 1].data.value
              sent == viz'.log[Len(viz'.log)]
          IN  /\ DOMAIN interp'.rt = DOMAIN ex.scope[c]
              /\ interp'.rt[target] = [ex.scope[c][target] EXCEPT !.value = value]
              /\ Len(viz'.log) = Len(viz.log) + 2
              /\ viz'.log[Len(viz.log) + 1].op = "popFrame"
              /\ sent.op = "setVariable" /\ sent.name = target
              /\ sent.value = value
              /\ sent.address = ex.scope[c][target].address]_vars

\* the inner call of ProgNested has returned 2 into u of twice
C14_Witness ==
    /\ prog = ProgNested
    /\ ex.i > 0
    /\ ex.i - 1 \in ex.executed
    /\ interp.steps[ex.i].type = "RETURN_FROM_CALL"
    /\ interp.steps[ex.i].data.targetVar = "u"
    /\ Has(interp.rt, "u") /\ interp.rt["u"].value = Num(2)
    /\ Has(interp.rt, "x") /\ ~Has(interp.rt, "t")

\* the step names a pointer or a variable that the current scope does not
\* bind, or a pointer whose '&name' target it does not bind
Unbound(step) ==
    CASE step.type \in {"POINTER_INCREMENT", "UPDATE_VARIABLE"} ->
            ~Has(interp.rt, step.data.name)
      [] step.type = "SET_HEAP_FIELD" -> ~Has(interp.rt, step.data.pointerName)
      [] step.type = "DEREF_ASSIGN" ->
            \/ ~Has(interp.rt, step.data.pointerName)
            \/ /\ interp.rt[step.data.pointerName].value.t = "ref"
               /\ ~Has(interp.rt, interp.rt[step.data.pointerName].value.s)
      [] OTHER -> FALSE

\* a placeholder of the output text whose name the current scope does not
\* bind
Unresolvable(piece) == piece.k = "placeholder" /\ ~Has(interp.rt, piece.s)

\* C15: a DEREF_ASSIGN, POINTER_INCREMENT, UPDATE_VARIABLE or SET_HEAP_FIELD
\* step whose pointer or target is not bound in the current scope calls no
\* store action and changes no runtime binding; LOG_OUTPUT calls logOutput
\* exactly once, and a placeholder it cannot resolve is still in the text
\* it sends; the replay goes on to the next step in both cases.
C15_UnresolvedReferenceSkipped ==
    [][/\ (/\ ex.pc = "loop" /\ ex.i < Len(interp.steps)
           /\ ex'.executed = ex.executed \cup {ex.i}
           /\ Unbound(interp.steps[ex.i + 1]))
          => /\ viz' = viz
             /\ interp'.rt = interp.rt
             /\ interp'.cs = interp.cs
             /\ ex'.i = ex.i + 1
       /\ Applying("LOG_OUTPUT")
          => LET text == interp.steps[ex.i + 1].data.text
                 sent == viz'.log[Len(viz'.log)]
             IN  /\ Len(viz'.log) = Len(viz.log) + 1
                 /\ sent.op = "logOutput"
                 /\ Len(sent.name) = Len(text)
                 /\ \A j \in 1..Len(text) :
                        Unresolvable(text[j]) => sent.name[j] = text[j]
                 /\ interp'.rt = interp.rt
                 /\ ex'.i = ex.i + 1]_vars

\* the replay of ProgUnbound is over: with a getState the output shows
\* x's value and still holds the placeholders of q
C15_Witness ==
    /\ prog = ProgUnbound
    /\ ReplayComplete
    /\ interp.getState
    /\ Len(viz.output) = 2
    /\ viz.output[1] = <<Lit("v="), Placeholder(1, "q"), Placeholder(0, "q"),
                         Placeholder(2, "q"), Shown(Num(1))>>
    /\ viz.output[2] = <<Placeholder(1, "p")>>
    /\ DOMAIN interp.rt = {"x", "p"}

\* C16: no two ALLOCATE_HEAP steps of one generated step list carry the
\* same address.
C16_HeapTokensAreFresh ==
    \A j, k \in 1..Len(interp.steps) :
        (/\ j # k
         /\ interp.steps[j].type = "ALLOCATE_HEAP"
         /\ interp.steps[k].type = "ALLOCATE_HEAP")
        => interp.steps[j].data.address # interp.steps[k].data.address

\* what a pointer value refers to in the current scope and the heap: the
\* variable of '&name', the element of 'name[i]', the heap cell of an
\* address; Undef when there is none
Referent(pv) ==
    CASE pv.t = "ref" /\ Has(interp.rt, pv.s) -> interp.rt[pv.s].value
      [] /\ pv.t = "elem" /\ Has(interp.rt, pv.s)
         /\ interp.rt[pv.s].value.t = "arr"
         /\ pv.n >= 0 /\ pv.n < Len(interp.rt[pv.s].value.e) ->
            interp.rt[pv.s].value.e[pv.n + 1]
      [] pv.t = "addr" /\ Has(viz.heap, pv.n) -> viz.heap[pv.n].value
      [] OTHER -> Undef

\* the value a placeholder stands for: of x for {x}, of what p refers to
\* for {*p}, of what the pointer h refers to refers to for {**h}
Denoted(piece) ==
    IF ~Has(interp.rt, piece.s) THEN Undef
    ELSE CASE piece.stars = 0 -> interp.rt[piece.s].value
           [] piece.stars = 1 -> Referent(interp.rt[piece.s].value)
           [] OTHER -> Referent(Referent(interp.rt[piece.s].value))

\* C17: LOG_OUTPUT sends the text with every placeholder that denotes a
\* value replaced by that value: {x} by the value of x, {*p} by the value
\* of what p refers to, {**h} by the value reached through h and then
\* through the pointer h refers to.
C17_PlaceholdersResolved ==
    [][Applying("LOG_OUTPUT") =>
          LET text == interp.steps[ex.i + 1].data.text
              sent == viz'.log[Len(viz'.log)].name
          IN  /\ Len(sent) = Len(text)
              /\ \A j \in 1..Len(text) :
                     (text[j].k = "placeholder" /\ Denoted(text[j]).t # "undef")
                         => sent[j] = Shown(Denoted(text[j]))]_vars

\* the type and the tags of every step of a list
Shape(steps) == [j \in 1..Len(steps) |-> <<steps[j].type, steps[j].cb>>]

\* the indices of the steps tagged under the marker at index p
TaggedUnder(steps, p) ==
    {j \in 0..(Len(steps) - 1) :
        \E t \in 1..Len(steps[j + 1].cb) : steps[j + 1].cb[t].parent = p}

\* ProgIf, whatever x0: both branches, each tagged under the marker at 3
IfShape ==
    << <<"PUSH_FRAME", <<>>>>, <<"SET_VARIABLE", <<>>>>, <<"SET_VARIABLE", <<>>>>,
       <<"IF_STATEMENT", <<>>>>,
       <<"UPDATE_VARIABLE", <<Tag(IfTrue, 3)>>>>,
       <<"UPDATE_VARIABLE", <<Tag(IfFalse, 3)>>>>,
       <<"POP_FRAME", <<>>>> >>

\* ProgSwitch, whatever x0: every case and the default, no step for break
SwitchShape ==
    << <<"PUSH_FRAME", <<>>>>, <<"SET_VARIABLE", <<>>>>, <<"SET_VARIABLE", <<>>>>,
       <<"SWITCH_STATEMENT", <<>>>>,
       <<"ENTER_CASE", <<Tag(CaseLabel(Num(1)), 3)>>>>,
       <<"UPDATE_VARIABLE", <<Tag(CaseLabel(Num(1)), 3)>>>>,
       <<"ENTER_CASE", <<Tag(CaseLabel(Num(2)), 3)>>>>,
       <<"UPDATE_VARIABLE", <<Tag(CaseLabel(Num(2)), 3)>>>>,
       <<"ENTER_CASE", <<Tag(DefaultLabel, 3)>>>>,
       <<"UPDATE_VARIABLE", <<Tag(DefaultLabel, 3)>>>>,
       <<"POP_FRAME", <<>>>> >>

\* C21: both branches of an if and every case body of a switch, the default
\* included, are in the step list whatever the static prediction; a tag's
\* parent is the index of an IF_STATEMENT or SWITCH_STATEMENT step before
\* the step that carries it, its label is a branch of that owner, and the
\* steps tagged under an owner are the ones from the owner to the end of
\* its last branch; break leaves no step.
C21_BranchesUnrolledAndTagged ==
    LET steps == interp.steps
        markers == {p \in 0..(Len(steps) - 1) :
                       steps[p + 1].type \in {"IF_STATEMENT", "SWITCH_STATEMENT"}}
    IN  /\ \A j \in 0..(Len(steps) - 1) : \A t \in 1..Len(steps[j + 1].cb) :
               LET tag == steps[j + 1].cb[t]
               IN  /\ tag.parent \in markers
                   /\ tag.parent < j
                   /\ steps[tag.parent + 1].type = "IF_STATEMENT"
                          <=> tag.branch \in {IfTrue, IfFalse}
                   \* one tag for each owner, the innermost owner first
                   /\ \A q \in 1..Len(steps[j + 1].cb) :
                          t < q => steps[j + 1].cb[q].parent < tag.parent
        /\ \A p \in markers :
               /\ \E hi \in p..(Len(steps) - 1) :
                      TaggedUnder(steps, p) = (p + 1)..hi
               /\ (steps[p + 1].type = "IF_STATEMENT"
                   /\ steps[p + 1].data.hasTrueBranch)
                      => IfTrue \in LabelsUnder(steps, p)
               /\ (steps[p + 1].type = "IF_STATEMENT"
                   /\ steps[p + 1].data.hasFalseBranch)
                      => IfFalse \in LabelsUnder(steps, p)
               \* the then-branch comes before the else-branch
               /\ \A j, k \in TaggedUnder(steps, p) :
                      (HasTag(steps[j + 1], IfFalse, p)
                       /\ HasTag(steps[k + 1], IfTrue, p)) => k < j
        /\ prog \in {ProgIf(3), ProgIf(7)} => Shape(steps) = IfShape
        /\ prog \in {ProgSwitch(1), ProgSwitch(5)} => Shape(steps) = SwitchShape
        /\ prog \in {ProgSwitchIf(1), ProgSwitchIf(5)} =>
               /\ LabelsUnder(steps, 3) = {CaseLabel(Num(1)), DefaultLabel}
               /\ Len(steps) = 10

\* the list of a nested if has been generated under a false prediction for
\* the outer condition, and is being replayed
C21_Witness ==
    /\ prog = ProgNestedIf(3, 0)
    /\ ex.pc = "loop"
    /\ \E j \in 1..Len(interp.steps) : Len(interp.steps[j].cb) = 2
    /\ IfFalse \in LabelsUnder(interp.steps, 3)
    /\ IfTrue \in LabelsUnder(interp.steps, 4)

\* the RETURN_FROM_CALL steps that close the CALL step at index c, given
\* the number of calls open at every index: the first return after c that
\* finds one more call open than c did
ClosingReturns(c, open) ==
    {r \in (c + 1)..(Len(interp.steps) - 1) :
        /\ interp.steps[r + 1].type = "RETURN_FROM_CALL"
        /\ open[r] = open[c] + 1
        /\ \A q \in (c + 1)..(r - 1) :
               interp.steps[q + 1].type = "RETURN_FROM_CALL" => open[q] # open[r]}

\* the smaller of two numbers
Min(a, b) == IF a < b THEN a ELSE b

\* C22: every CALL step is followed by min(formals, actuals) PARAM_INIT
\* steps, the i-th naming the i-th formal and carrying the i-th actual, then
\* by the callee's body, and is closed by exactly one RETURN_FROM_CALL of
\* the same function; in every list the CALL and RETURN_FROM_CALL steps
\* nest: no prefix has more returns than calls, and none is left open.
C22_CallShape ==
    LET steps == interp.steps IN
    With([j \in 0..Len(steps) |-> OpenCalls(j)], LAMBDA open :
    /\ \A j \in 0..Len(steps) : open[j] >= 0
    /\ open[Len(steps)] = 0
    /\ \A c \in 0..(Len(steps) - 1) : steps[c + 1].type = "CALL" =>
           LET fn == prog[FunctionIndex(prog, steps[c + 1].data.name)]
               args == steps[c + 1].data.args
               n == Min(Len(fn.params), Len(args))
           IN  /\ \A i \in 1..n :
                      /\ steps[c + 1 + i].type = "PARAM_INIT"
                      /\ steps[c + 1 + i].data.name = fn.params[i].name
                      /\ steps[c + 1 + i].data.value = args[i]
               /\ steps[c + n + 2].type # "PARAM_INIT"
               /\ Cardinality(ClosingReturns(c, open)) = 1
               /\ \A r \in ClosingReturns(c, open) :
                      /\ steps[r + 1].data.name = steps[c + 1].data.name
                      /\ steps[r + 1].data.targetVar = steps[c + 1].data.targetVar
                      \* the callee's body lies between the two
                      /\ Len(fn.body) > 0 /\ open[c] < MaxCallDepth
                             => r > c + n + 1
    /\ prog = ProgArity =>
           [j \in 1..Len(steps) |-> steps[j].type]
               = <<"PUSH_FRAME", "SET_VARIABLE", "CALL", "PARAM_INIT",
                   "SET_VARIABLE", "RETURN", "RETURN_FROM_CALL", "SET_VARIABLE",
                   "CALL", "PARAM_INIT", "RETURN", "RETURN_FROM_CALL",
                   "POP_FRAME">>)

\* a call with fewer actuals than formals and one with more have been
\* unrolled, and the replay is inside the first
C22_Witness ==
    /\ prog = ProgArity
    /\ ex.pc = "loop"
    /\ ex.i = 4
    /\ Len(interp.steps[3].data.args) = 1
    /\ Len(interp.steps[9].data.args) = 2

\* what a condition is worth in the program, under the bindings of the
\* runtime map: a comparison of two terms, two conditions joined by && or
\* ||, a negation, or a term that is true when it is not zero
RECURSIVE Holds(_, _)
Holds(c, rt) ==
    CASE c.k = "binary_expression" /\ c.op = "&&" -> Holds(c.l, rt) /\ Holds(c.r, rt)
      [] c.k = "binary_expression" /\ c.op = "||" -> Holds(c.l, rt) \/ Holds(c.r, rt)
      [] c.k = "binary_expression" /\ c.op = "==" ->
            evaluateTerm(c.l, rt, "r") = evaluateTerm(c.r, rt, "r")
      [] c.k = "binary_expression" /\ c.op = "!=" ->
            evaluateTerm(c.l, rt, "r") # evaluateTerm(c.r, rt, "r")
      [] c.k = "binary_expression" /\ c.op \in {">", "<", ">=", "<="} ->
            Relational(c.op, evaluateTerm(c.l, rt, "r"), evaluateTerm(c.r, rt, "r"))
      [] c.k = "unary_expression" -> ~Holds(c.arg, rt)
      [] OTHER -> evaluateTerm(c, rt, "r") \notin {Num(0), Undef}

\* C23: whenever the executor applies an IF_STATEMENT step, the branch it
\* keeps is the then-branch exactly when the step's condition is true under
\* the runtime bindings of that moment.
C23_BranchFollowsCondition ==
    [][Applying("IF_STATEMENT") =>
          (ex'.cond[ex.i] <=> Holds(interp.steps[ex.i + 1].data.condition, interp.rt))]_vars

\* C24: a DEREF_ASSIGN step through p stores into the one thing p's value
\* names at that moment and nowhere else. If p names arr[i], slot i of arr
\* takes the value and the other slots stay; if p names a variable, that
\* variable takes the value, also when it holds a pointer itself; if p holds
\* a heap token, no binding changes and no other heap cell changes. p's own
\* binding and every other binding are what they were.
C24_DerefStoreOneLevel ==
    [][Applying("DEREF_ASSIGN") =>
          LET d == interp.steps[ex.i + 1].data
              rt == interp.rt
              p == IF Has(rt, d.pointerName) THEN rt[d.pointerName].value ELSE Undef
              target == IF p.t \in {"elem", "ref"} /\ Has(rt, p.s) THEN {p.s} ELSE {}
          IN  /\ DOMAIN interp'.rt = DOMAIN rt
              /\ \A x \in DOMAIN rt \ target : interp'.rt[x] = rt[x]
              /\ \A x \in target :
                     /\ interp'.rt[x].type = rt[x].type
                     /\ interp'.rt[x].address = rt[x].address
                     /\ IF p.t = "ref" THEN interp'.rt[x].value = d.value
                        ELSE IF rt[x].value.t # "arr" THEN interp'.rt[x] = rt[x]
                        ELSE /\ interp'.rt[x].value.t = "arr"
                             /\ interp'.rt[x].value.e[p.n + 1] = d.value
                             /\ \A j \in 1..Len(rt[x].value.e) :
                                    j # p.n + 1 =>
                                        interp'.rt[x].value.e[j] = rt[x].value.e[j]
              /\ DOMAIN viz'.heap = DOMAIN viz.heap
              /\ \A a \in DOMAIN viz.heap :
                     (p.t # "addr" \/ a # p.n) => viz'.heap[a] = viz.heap[a]
      ]_vars

\* both stores of ProgDeref are done: x took 7 through p, then p was
\* replaced through h while x and h stayed
C24_Witness ==
    /\ prog = ProgDeref
    /\ ex.pc = "loop"
    /\ ex.i = 7
    /\ interp.rt["x"].value = Num(7)
    /\ interp.rt["p"].value.t = "addr"
    /\ interp.rt["h"].value = VarRef("p")

C29_PointerArithmeticResolved ==
    [][(/\ Applying("UPDATE_VARIABLE")
        /\ MatchPtrArith(interp.steps[ex.i + 1].data.value)
        /\ Has(interp.rt, interp.steps[ex.i + 1].data.name))
       => LET d == interp.steps[ex.i + 1].data
              q == IF Has(interp.rt, d.value.s) THEN interp.rt[d.value.s].value
                   ELSE Undef
          IN  /\ MatchArrayElem(q) =>
                     interp'.rt[d.name].value
                         = ElemRef(q.s, IF d.value.o = "+" THEN q.n + d.value.n
                                        ELSE q.n - d.value.n)
              /\ ~MatchPtrArith(interp'.rt[d.name].value)]_vars

\* C31: no step of a replay changes the step list: type, payload and tags
\* of every step stay what generateSteps returned, and the array a
\* SET_VARIABLE step of ProgArray carries is still {1, 2, 3} while the
\* binding it initialised has taken a store through a pointer.
C31_StepListImmutable ==
    /\ [][interp'.steps = interp.steps]_vars
    /\ [](prog = ProgArray =>
              interp.steps[2].data.value = Arr(<<Num(1), Num(2), Num(3)>>))

\* the replay of ProgArray has stored 9 into arr[1] through p
C31_Witness ==
    /\ prog = ProgArray
    /\ ex.pc = "loop"
    /\ Has(interp.rt, "arr")
    /\ interp.rt["arr"].value = Arr(<<Num(1), Num(9), Num(3)>>)
    /\ interp.steps[2].data.name = "arr"

\* C33: once a RETURN step has been applied inside a call, every step
\* applied before the RETURN_FROM_CALL that closes the call leaves the
\* store's calls, the bindings and the captured return value as they are.
C33_ReturnEndsCallee ==
    [][(/\ ex.pc = "loop"
        /\ ex.i < Len(interp.steps)
        /\ ex'.executed = ex.executed \cup {ex.i}
        /\ interp.ret
        /\ interp.steps[ex.i + 1].type # "RETURN_FROM_CALL")
       => /\ viz'.log = viz.log
          /\ interp'.rt = interp.rt
          /\ interp'.lrv = interp.lrv]_vars

\* C34: applying the UPDATE_ARRAY_ELEMENT step of arr[i] = v to a bound
\* array makes element i of arr's binding v, keeps the other elements and
\* every other binding, and sends the store one setVariable call that
\* carries the updated array.
C34_ArrayElementAssigned ==
    [][(/\ Applying("UPDATE_ARRAY_ELEMENT")
        /\ Has(interp.rt, interp.steps[ex.i + 1].data.arrayName)
        /\ interp.rt[interp.steps[ex.i + 1].data.arrayName].value.t = "arr")
       => LET d == interp.steps[ex.i + 1].data
              old == interp.rt[d.arrayName].value.e
              new == interp'.rt[d.arrayName].value
          IN  /\ new.t = "arr"
              /\ Len(new.e) = Len(old)
              /\ \A j \in 1..Len(old) :
                     new.e[j] = IF j = d.index.n + 1 THEN d.value ELSE old[j]
              /\ \A x \in DOMAIN interp.rt \ {d.arrayName} :
                     interp'.rt[x] = interp.rt[x]
              /\ Len(viz'.log) = Len(viz.log) + 1
              /\ viz'.log[Len(viz'.log)].op = "setVariable"
              /\ viz'.log[Len(viz'.log)].name = d.arrayName
              /\ viz'.log[Len(viz'.log)].value = new]_vars

\* C36: every array binding has the number of elements its declaration
\* gave it, whatever pointer steps and stores through pointers have been
\* applied.
C36_ArrayLengthKept ==
    \A x \in DOMAIN interp.rt :
        (interp.rt[x].value.t = "arr" /\ interp.rt[x].type.dim >= 0)
            => Len(interp.rt[x].value.e) = interp.rt[x].type.dim

\* the value of x after the executor applies two POINTER_INCREMENT steps
\* on x, the first with delta d1 and the second with delta d2
AfterTwoSteps(x, d1, d2) ==
    ExecPointerIncrement(
        ExecPointerIncrement(Machine(interp, viz), [name |-> x, delta |-> d1]),
        [name |-> x, delta |-> d2]).i.rt[x].value

\* C37: for every binding that refers to an array element arr[i] or holds
\* a number, x++ followed by x-- and x-- followed by x++ both give the
\* value back; and when the replay of ProgDownUp has applied n--, n++, p--
\* and p++, n is 5 and p refers to arr[0] again.
C37_PointerStepsInverse ==
    /\ \A x \in DOMAIN interp.rt :
           (MatchArrayElem(interp.rt[x].value) \/ interp.rt[x].value.t = "num")
               => /\ AfterTwoSteps(x, 1, -1) = interp.rt[x].value
                  /\ AfterTwoSteps(x, -1, 1) = interp.rt[x].value
    /\ (prog = ProgDownUp /\ ex.pc = "loop" /\ ex.i = 8)
           => /\ interp.rt["n"].value = Num(5)
              /\ interp.rt["p"].value = ElemRef("arr", 0)

\* the steps of ProgSelfAssign emitted for x = x + c: index and c
SelfAssignments == {<<2, 2>>, <<5, 1>>}

\* C38: applying the UPDATE_VARIABLE step emitted for x = x + c leaves x's
\* runtime value equal to its value just before the step plus c.
C38_SelfAssignmentUsesRuntimeValue ==
    [][\A sa \in SelfAssignments :
          (prog = ProgSelfAssign /\ Applying("UPDATE_VARIABLE") /\ ex.i = sa[1])
              => interp'.rt["x"].value = Num(interp.rt["x"].value.n + sa[2])]_vars

\* the setVariable calls the store received, in order: name and value
SetVariableCalls ==
    LET calls == SelectSeq(viz.log, LAMBDA c : c.op = "setVariable")
    IN  [j \in 1..Len(calls) |-> <<calls[j].name, calls[j].value>>]

\* C11: int x = 10, y = 99; int* ptr = &x; ptr = &y; makes the setVariable
\* calls x = 10, y = 99, ptr = '&x' and then ptr = '&y', in that order and
\* no others, and never calls allocateHeap.
C11_PointerReassignment ==
    (prog = ProgPointer /\ ReplayComplete) =>
        /\ SetVariableCalls = << <<"x", Num(10)>>, <<"y", Num(99)>>,
                                <<"ptr", VarRef("x")>>, <<"ptr", VarRef("y")>> >>
        /\ CallsOf("allocateHeap") = {}

\* the replay of that program is over, the reassignment of ptr included
C11_Witness ==
    /\ prog = ProgPointer
    /\ ReplayComplete
    /\ \E j \in ex.executed : interp.steps[j + 1].type = "UPDATE_VARIABLE"
    /\ Has(interp.rt, "ptr")

-----------------------------------------------------------------------------
(* Specification 3: the Editor page driving the interpreter               *)

MaxPresses == 3     \* presses of Play that start a run, and of Reset
MaxSeeks == 2       \* presses of Step Back

EditorPrograms == {ProgParam, ProgIfOnly}

\* one invocation of executeStepsWithVisualization: where it waits, its
\* loop index and its steps argument; stopped records that handleStop ran
\* while it was alive
Loop(pc, i, steps) ==
    [pc |-> pc, i |-> i, steps |-> steps, stopped |-> FALSE]

\* an invocation that has returned, or a slot never used
NoLoop == Loop("done", 0, <<>>)

\* after the mount effect: the interpreter exists and generateSteps has run
\* once over the code in the editor; stepsRef.current is still []
InitEditor ==
    /\ prog \in EditorPrograms
    /\ \E rnd \in RandomDraws : interp = generateSteps(NewInterpreter, prog, rnd)
    /\ viz = [InitialViz EXCEPT !.rec = FALSE]
    /\ un = UnIdle
    /\ ex = ExIdle
    /\ ed = [EdIdle EXCEPT !.totalSteps = Len(interp.steps)]
    /\ loops = [l \in 1..MaxPresses |-> NoLoop]
    /\ hist = [HistIdle EXCEPT !.ctr0 = interp.ctr]

AllDone == \A l \in 1..Len(loops) : loops[l].pc = "done"

\* the slot of the next invocation
FreeSlot == hist.runs + 1


\* the for loop of executeStepsWithVisualization from the test of index i
\* to its next timer, or to its end
RunLoop(i, steps, e, m) ==
    IF i >= Len(steps) - 1 \/ e.shouldStop
    THEN [pc |-> "done", i |-> i,
          e |-> [e EXCEPT !.isPlaying = FALSE, !.isPaused = FALSE],
          m |-> Machine(m.i, VizSetStatus(m.v, "COMPLETED"))]
    ELSE IF e.paused
    THEN [pc |-> "pausewait", i |-> i, e |-> e, m |-> m]
    ELSE [pc |-> "sleep", i |-> i,
          e |-> [e EXCEPT !.currentStep = i + 1],
          m |-> ExecStep(m, steps[i + 1])]

\* executeStep over steps[from .. to-1], as handleStepBack's loop does
RECURSIVE ExecPrefix(_, _, _, _)
ExecPrefix(m, steps, from, to) ==
    IF from >= to \/ from >= Len(steps) THEN m
    ELSE ExecPrefix(ExecStep(m, steps[from + 1]), steps, from + 1, to)

Snapshot(k, i, v) == [k |-> k, stack |-> v.stack, heap |-> v.heap, rt |-> i.rt]

\* Play pressed while nothing plays: parseCurrentCode, generateSteps,
\* executeStepsWithVisualization up to its first timer
Run ==
    /\ ~ed.isPlaying
    /\ hist.runs + hist.resets < MaxPresses
    /\ \E rnd \in RandomDraws :
        With(generateSteps(interp, prog, rnd), LAMBDA g :
        With(RunLoop(0, g.steps,
                     [ed EXCEPT !.steps = g.steps, !.totalSteps = Len(g.steps),
                                !.paused = FALSE, !.shouldStop = FALSE,
                                !.isPlaying = TRUE, !.isPaused = FALSE,
                                !.currentStep = 0],
                     Machine(g, VizSetStatus(VizReset(viz), "RUNNING"))),
             LAMBDA r :
            /\ interp' = r.m.i
            /\ viz' = r.m.v
            /\ ed' = r.e
            /\ loops' = [l \in 1..Len(loops) |->
                            IF l = FreeSlot
                            THEN IF r.pc = "done" THEN NoLoop
                                 ELSE Loop(r.pc, r.i, g.steps)
                            ELSE loops[l]]
            /\ hist' = [hist EXCEPT !.runs = @ + 1,
                                    !.mode = IF AllDone THEN "play" ELSE "mixed",
                                    !.seeks = <<>>,
                                    !.ctr0 = g.ctr]))
    /\ UNCHANGED <<prog, un, ex>>

\* Play pressed while playing and not paused: handlePause
Pause ==
    /\ ed.isPlaying /\ ~ed.isPaused
    /\ ed' = [ed EXCEPT !.paused = TRUE, !.isPaused = TRUE]
    /\ UNCHANGED <<prog, interp, viz, un, ex, loops, hist>>

\* Play pressed while paused: handleResume
Resume ==
    /\ ed.isPlaying /\ ed.isPaused
    /\ ed' = [ed EXCEPT !.paused = FALSE, !.isPaused = FALSE]
    /\ UNCHANGED <<prog, interp, viz, un, ex, loops, hist>>

\* Reset pressed: handleStop(); vizActions.reset(); setCurrentStep(0);
\* stepsRef.current = []
Reset ==
    /\ hist.runs + hist.resets < MaxPresses
    /\ ed' = [ed EXCEPT !.shouldStop = TRUE, !.paused = FALSE,
                        !.isPlaying = FALSE, !.isPaused = FALSE,
                        !.currentStep = 0, !.steps = <<>>]
    /\ viz' = VizReset(VizSetStatus(viz, "IDLE"))
    /\ loops' = [l \in 1..Len(loops) |->
                    IF loops[l].pc # "done"
                    THEN [loops[l] EXCEPT !.stopped = TRUE]
                    ELSE loops[l]]
    /\ hist' = [hist EXCEPT !.mode = "none", !.seeks = <<>>, !.resets = @ + 1]
    /\ UNCHANGED <<prog, interp, un, ex>>

\* the 1000 ms timer of invocation l fires: i++ and the next iteration
LoopWake(l) ==
    /\ loops[l].pc = "sleep"
    /\ With(RunLoop(loops[l].i + 1, loops[l].steps, ed, Machine(interp, viz)),
            LAMBDA r :
            /\ interp' = r.m.i
            /\ viz' = r.m.v
            /\ ed' = r.e
            /\ loops' = [loops EXCEPT ![l] = IF r.pc = "done" THEN NoLoop
                                             ELSE [@ EXCEPT !.pc = r.pc, !.i = r.i]])
    /\ UNCHANGED <<prog, un, ex, hist>>

\* the 100 ms timer of invocation l fires and the pause loop is left
LoopPauseWake(l) ==
    /\ loops[l].pc = "pausewait"
    /\ ~(ed.paused /\ ~ed.shouldStop)
    /\ With(RunLoop(loops[l].i, loops[l].steps, ed, Machine(interp, viz)),
            LAMBDA r :
            /\ interp' = r.m.i
            /\ viz' = r.m.v
            /\ ed' = r.e
            /\ loops' = [loops EXCEPT ![l] = IF r.pc = "done" THEN NoLoop
                                             ELSE [@ EXCEPT !.pc = r.pc, !.i = r.i]])
    /\ UNCHANGED <<prog, un, ex, hist>>

\* Step Forward pressed (the button is disabled while playing and at the
\* end of the list): handleStepForward
StepForward ==
    /\ ed.currentStep < ed.totalSteps
    /\ ~ed.isPlaying
    /\ \E rnd \in RandomDraws :
        LET regen == Len(ed.steps) = 0
            fresh == regen \/ ed.currentStep = 0
            nextStep == ed.currentStep
        IN
        With(IF regen THEN generateSteps(interp, prog, rnd) ELSE interp, LAMBDA g :
        With(Machine(g, IF fresh THEN VizSetStatus(VizReset(viz), "RUNNING") ELSE viz),
             LAMBDA m0 :
        With(IF nextStep >= Len(g.steps) THEN m0 ELSE ExecStep(m0, g.steps[nextStep + 1]),
             LAMBDA m :
            /\ interp' = m.i
            /\ viz' = IF nextStep < Len(g.steps) /\ nextStep + 1 >= Len(g.steps)
                      THEN VizSetStatus(m.v, "COMPLETED") ELSE m.v
            /\ ed' = [ed EXCEPT
                        !.steps = g.steps,
                        !.totalSteps = IF regen THEN Len(g.steps) ELSE @,
                        !.currentStep = IF nextStep < Len(g.steps) THEN nextStep + 1
                                        ELSE @]
            /\ hist' = [hist EXCEPT
                        !.mode = IF ~AllDone THEN "mixed"
                                 ELSE IF fresh \/ @ = "forward" THEN "forward"
                                 ELSE "mixed",
                        !.seeks = IF regen THEN <<>> ELSE @,
                        !.ctr0 = IF regen THEN g.ctr ELSE @])))
    /\ UNCHANGED <<prog, un, ex, loops>>

\* Step Back pressed (disabled while playing and at step 0): handleStepBack
\* clears the store and replays steps 0 .. currentStep-2
StepBack ==
    /\ ed.currentStep > 0
    /\ ~ed.isPlaying
    /\ hist.nseeks < MaxSeeks
    /\ \E rnd \in RandomDraws :
        LET regen == Len(ed.steps) = 0
            targetStep == ed.currentStep - 1
        IN
        With(IF regen THEN generateSteps(interp, prog, rnd) ELSE interp, LAMBDA g :
        With(IF targetStep > 0
             THEN ExecPrefix(Machine(g, VizSetStatus(VizReset(viz), "RUNNING")),
                             g.steps, 0, targetStep)
             ELSE Machine(g, VizSetStatus(VizReset(viz), "IDLE")),
             LAMBDA m :
            /\ interp' = m.i
            /\ viz' = m.v
            /\ ed' = [ed EXCEPT
                        !.steps = g.steps,
                        !.totalSteps = IF regen THEN Len(g.steps) ELSE @,
                        !.currentStep = targetStep]
            /\ hist' = [hist EXCEPT
                        !.mode = IF AllDone THEN "seek" ELSE "mixed",
                        !.seeks = <<Snapshot(targetStep, m.i, m.v)>>,
                        !.nseeks = @ + 1,
                        !.ctr0 = IF regen THEN g.ctr ELSE @]))
    /\ UNCHANGED <<prog, un, ex, loops>>

NextEditor ==
    \/ Run
    \/ Pause
    \/ Resume
    \/ Reset
    \/ StepForward
    \/ StepBack
    \/ \E l \in 1..Len(loops) : LoopWake(l)
    \/ \E l \in 1..Len(loops) : LoopPauseWake(l)

SpecEditor == InitEditor /\ [][NextEditor]_vars

\* invocation l applies a step in this transition: it goes to sleep on
\* the 1000 ms timer after executeStep
Applies(l) ==
    /\ loops[l].pc \in {"sleep", "pausewait"}
    /\ loops'[l].pc = "sleep"
    /\ loops[l].pc = "sleep" => loops'[l].i = loops[l].i + 1

\* the index of the step invocation l applied last (-1: none yet)
LastApplied(l) == IF loops[l].pc = "sleep" THEN loops[l].i ELSE loops[l].i - 1

\* C3: at most one run loop applies steps, whatever the interleaving of
\* Play, Pause, Resume, Reset and Play again (Reset and then Play while the
\* loop of the old run is still asleep): when a run loop applies a step, no
\* other run loop is still in its for loop.
C3_OneLoopAppliesSteps ==
    [][\A l \in 1..Len(loops) :
          Applies(l) => \A o \in 1..Len(loops) : o # l => loops[o].pc = "done"]_vars

\* C18: when a run loop ends without having been stopped, it has applied
\* every step of its list, the last one included, each once and in index
\* order, and only then is the status COMPLETED.
C18_RunAppliesWholeList ==
    [][\A l \in 1..Len(loops) :
          (/\ loops[l].pc \in {"sleep", "pausewait"}
           /\ loops'[l].pc = "done"
           /\ ~ed.shouldStop)
          => /\ LastApplied(l) = Len(loops[l].steps) - 1
             /\ viz'.status = "COMPLETED"]_vars

\* C32: whenever the store has a stack frame, the variables of its top
\* frame are the bindings of the executor's runtime map: the same names,
\* each with the same value, type and address.
C32_ScopeAgreesWithTopFrame ==
    Len(viz.stack) > 0 => viz.stack[Len(viz.stack)].variables = interp.rt

\* C35: a run loop that Reset has stopped never sets the status to
\* COMPLETED when it ends, and once every loop has ended after a Reset that
\* no Play or Step has followed, the status is IDLE and the stack is empty.
C35_ResetSettlesIdle ==
    /\ [][\A l \in 1..Len(loops) :
              (loops[l].stopped /\ loops[l].pc # "done" /\ loops'[l].pc = "done")
                  => viz'.status # "COMPLETED"]_vars
    /\ []((hist.resets > 0 /\ hist.mode = "none" /\ AllDone)
              => (viz.status = "IDLE" /\ viz.stack = <<>>))

\* C4: seeking to index k and then seeking to k again, with no other seek
\* in between, leaves the same scope bindings (names, values, types,
\* addresses) and the same heap.
C4_SeekTwiceSameState ==
    [][(/\ hist'.nseeks = hist.nseeks + 1
        /\ Len(hist.seeks) = 1
        /\ hist'.seeks[1].k = hist.seeks[1].k)
       => hist'.seeks[1] = hist.seeks[1]]_vars

\* executeSteps over the first k steps, from a cleared store and an
\* interpreter as generateSteps left it
RECURSIVE ExecuteStepsPrefix(_, _, _, _, _)
ExecuteStepsPrefix(m, skip, steps, i, k) ==
    IF i >= k \/ i >= Len(steps) THEN m
    ELSE IF shouldSkipStep(steps[i + 1], skip)
    THEN ExecuteStepsPrefix(m, skip, steps, i + 1, k)
    ELSE ExecuteStepsPrefix(
            ExecStep(m, steps[i + 1]),
            IF steps[i + 1].type = "IF_STATEMENT"
            THEN Put(skip, i, branchToSkip(
                        evaluateConditionFromState(steps[i + 1].data.condition, m.i.rt)))
            ELSE skip,
            steps, i + 1, k)

Selected(k) ==
    ExecuteStepsPrefix(
        Machine([NewInterpreter EXCEPT !.steps = ed.steps, !.ctr = hist.ctr0],
                InitialViz),
        EmptyMap, ed.steps, 0, k)

\* C7: autoplay over the first k steps, k single steps forward and a seek to
\* k agree on the store and on the scopes, and in each of them the steps of
\* a branch that was not selected are suppressed: each arrives at what the
\* first k steps give when only the selected branches are applied.
C7_EntryModesAgree ==
    hist.mode \in {"play", "forward", "seek"} =>
        With(Selected(ed.currentStep), LAMBDA m :
            /\ viz.stack = m.v.stack
            /\ viz.heap = m.v.heap
            /\ interp.rt = m.i.rt)

\* C8: pause and cancel only gate the consumption of steps: a run applies
\* no step while paused, each step it applies is its next unapplied index,
\* and after Stop it applies no further step.
C8_PauseAndStopGateConsumption ==
    [][\A l \in 1..Len(loops) :
          Applies(l) =>
              /\ ~ed.paused
              /\ ~loops[l].stopped
              /\ loops'[l].i = LastApplied(l) + 1]_vars

=============================================================================
